---------------------------- MODULE Spec2Model ----------------------------
(***************************************************************************)
(* A model of taiyoh/wheelamb: the container gateway (docker/docker.go:    *)
(* NewDockerGateway, RunImage, KillMulti), the function service            *)
(* (lambda_service.go: putZippedCode, Create, Invoke*, find, Close) and    *)
(* the function registry (LambdaRegistry).                                 *)
(*                                                                         *)
(* The specifications share the variables:                                 *)
(*   SpecKill      one execution of KillMulti on an arbitrary identifier   *)
(*                 list, at the granularity of the goroutines' steps;      *)
(*   SpecKillFair  the same under a fair scheduler;                        *)
(*   Spec          sequential histories of the service's operations;       *)
(*   SpecClose     Close, with its KillMulti, after a history of Creates;  *)
(*   SpecRegistry  histories of the registry's operations;                 *)
(*   SpecGateway   constructions of the gateway and its launches;          *)
(*   SpecGatewayUse  launches and KillMulti calls on a constructed gateway; *)
(*   SpecRace      two concurrent Creates, a find and a Close, at the      *)
(*                 granularity of their file-system, engine and map calls. *)
(***************************************************************************)
EXTENDS Integers, Sequences, FiniteSets, TLC

(***************************************************************************)
(* Bounds of the model.                                                    *)
(***************************************************************************)
\* longest identifier list handed to KillMulti
MaxIds == 4

(***************************************************************************)
(* Program constants.                                                      *)
(***************************************************************************)
\* docker.go:403  semaphore := make(chan struct{}, 3)
SemaphoreCap == 3

VARIABLES
    \* ---- KillMulti (docker.go:402-435) ----
    ids,        \* the identifier list given to KillMulti
    kpc,        \* position of the calling goroutine: "loop", "wait", "done"
    ki,         \* number of identifiers the range loop has consumed
    semaphore,  \* number of tokens buffered in the semaphore channel
    wg,         \* the WaitGroup counter
    gpc,        \* per list position: position of the goroutine started for it
    gloc,       \* per list position: the slice value the goroutine read for append
    errs,       \* the shared errList
    issued,     \* per list position: number of kill requests sent to the engine
    outcome,    \* per list position: the branch the engine's answer took
    kret,       \* the error interface value KillMulti returned
    \* ---- the function service (lambda_service.go) and its collaborators ----
    fs,         \* the file system below s.dir
    pool,       \* s.pool: the registered records by function name
    engine,     \* the container engine: the containers it was made to create
    serial,     \* number of records built so far (uuid.New, time.Now)
    last,       \* the last operation of the service and its result
    \* ---- the function registry (unnamed/part_000:69-101) ----
    mapping,    \* r.mapping: the records by function name
    rlast,      \* the last operation of the registry and its result
    \* ---- the container gateway (docker.go:137-226) ----
    gw,         \* the gateway the process holds, once one is constructed
    glast,      \* the last operation of the gateway and its result
    \* ---- concurrent calls of the function service ----
    cpc,        \* per concurrent Create: the line the call has reached
    creq,       \* per concurrent Create: its request (name and payload)
    cloc,       \* per concurrent Create: its locals (err, size, file, container)
    rpc,        \* the position of a concurrent find: "idle", "reading"
    xpc         \* the position of a concurrent Close: "idle", "collecting", "called"

kvars == <<ids, kpc, ki, semaphore, wg, gpc, gloc, errs, issued, outcome, kret>>

svars == <<fs, pool, engine, serial, last>>

rvars == <<mapping, rlast>>

gvars == <<gw, glast>>

cvars == <<cpc, creq, cloc, rpc, xpc>>

vars == <<kvars, svars, rvars, gvars, cvars>>

(***************************************************************************)
(* Go values.                                                              *)
(***************************************************************************)
\* The nil error interface value: no dynamic type, no value.
NilError == [typ |-> "nil", val |-> <<>>]

\* The result of a KillMulti that has not returned: no value yet.
NotReturned == [typ |-> "none", val |-> <<>>]

\* docker.go:434  `return errs` in a function whose result type is error:
\* the errList is boxed in an interface value whose dynamic type is errList,
\* whatever the slice holds (nil included).
ErrListToError(l) == [typ |-> "errList", val |-> l]

\* What a caller's `err != nil` test sees.
IsNilError(e) == e.typ = "nil"

\* The identifier of the engine's k-th container.  KillMulti never compares
\* identifiers, so one list per length covers every list of that length.
IdAt(k) == <<"container", k>>

(***************************************************************************)
(* Go values of the function service.                                      *)
(***************************************************************************)
\* A nil *string / *int64 field of a request.
NilStr == "<nil>"
NilInt == 0 - 1

\* awserr codes (aws-sdk-go service/lambda), as lambda_service.go uses them
ErrCodeResourceInUseException == "ResourceInUseException"
ErrCodeServiceException == "ServiceException"
ErrCodeInvalidZipFileException == "InvalidZipFileException"
ErrCodeInvalidRuntimeException == "InvalidRuntimeException"
ErrInvalidParams == "InvalidParameter"

\* an error value: its code and message; NoError is the nil error
Err(code, msg) == [code |-> code, msg |-> msg]
NoError == Err("nil", "")

\* lambda.go:25-42  the allow-list of runtime tags
availableTags ==
    {"nodejs4.3", "nodejs6.10", "nodejs8.10", "nodejs10.x", "nodejs12.x",
     "python2.7", "python3.6", "python3.7", "python3.8", "ruby2.5", "ruby2.7",
     "java8", "java11", "go1.x", "dotnetcore2.0", "dotnetcore2.1",
     "dotnetcore3.1"}

\* unnamed/part_003:12  the region of the process-wide configuration
awsConfRegion == "us-east-1"

(***************************************************************************)
(* base64.StdEncoding.DecodeString (lambda_service.go:63).  A payload is   *)
(* a sequence of characters; the decoder skips CR/LF, turns every group of *)
(* four alphabet characters into three bytes, accepts a last group padded  *)
(* with one or two '=' and rejects everything else.                        *)
(***************************************************************************)
\* the value of the alphabet characters the model's payloads use
B64Chars == {"A", "Q", "a", "i"}
B64Value(c) ==
    CASE c = "A" -> 0
      [] c = "Q" -> 16
      [] c = "a" -> 26
      [] c = "i" -> 34

RECURSIVE StripNewlines(_)
StripNewlines(s) ==
    IF s = <<>> THEN <<>>
    ELSE IF Head(s) \in {"LF", "CR"} THEN StripNewlines(Tail(s))
         ELSE <<Head(s)>> \o StripNewlines(Tail(s))

\* the three bytes of four 6-bit values
Quantum(a, b, c, d) ==
    LET val == B64Value(a) * 262144 + B64Value(b) * 4096 + B64Value(c) * 64 + B64Value(d)
    IN  <<val \div 65536, (val \div 256) % 256, val % 256>>

RECURSIVE DecodeQuanta(_)
DecodeQuanta(s) ==
    IF s = <<>> THEN [ok |-> TRUE, bytes |-> <<>>]
    ELSE IF Len(s) < 4 THEN [ok |-> FALSE, bytes |-> <<>>]
    ELSE IF \A k \in 1..4 : s[k] \in B64Chars
         THEN LET rest == DecodeQuanta(SubSeq(s, 5, Len(s)))
              IN  [ok |-> rest.ok,
                   bytes |-> IF rest.ok
                             THEN Quantum(s[1], s[2], s[3], s[4]) \o rest.bytes
                             ELSE <<>>]
    ELSE IF Len(s) = 4 /\ s[1] \in B64Chars /\ s[2] \in B64Chars
                       /\ s[3] = "=" /\ s[4] = "="
         THEN [ok |-> TRUE, bytes |-> SubSeq(Quantum(s[1], s[2], "A", "A"), 1, 1)]
    ELSE IF Len(s) = 4 /\ s[1] \in B64Chars /\ s[2] \in B64Chars
                       /\ s[3] \in B64Chars /\ s[4] = "="
         THEN [ok |-> TRUE, bytes |-> SubSeq(Quantum(s[1], s[2], s[3], "A"), 1, 2)]
    ELSE [ok |-> FALSE, bytes |-> <<>>]

\* lambda_service.go:63  base64.StdEncoding.DecodeString(string(zippedFile))
DecodeString(p) == DecodeQuanta(StripNewlines(p))

(***************************************************************************)
(* The file system below s.dir.  A path is the tuple of its components     *)
(* relative to s.dir; fs maps every existing path to its node.             *)
(***************************************************************************)
DirNode == [kind |-> "dir", data |-> <<>>]
FileNode(bytes) == [kind |-> "file", data |-> bytes]

IsPrefix(p, q) == Len(p) <= Len(q) /\ SubSeq(q, 1, Len(p)) = p
Prefixes(p) == {SubSeq(p, 1, k) : k \in 0..Len(p)}

\* Stat mutant: no path is ever found.
StatNeverFinds(f, p) == [info |-> FALSE, err |-> "PathError"]

\* os.Stat (lambda_service.go:47): the info of an existing path, else a
\* *PathError
Stat(f, p) ==
    IF p \in DOMAIN f THEN [info |-> TRUE, err |-> "nil"]
                      ELSE [info |-> FALSE, err |-> "PathError"]

\* os.MkdirAll (lambda_service.go:55): the directory and its missing parents
MkdirAll(f, p) ==
    [q \in DOMAIN f \cup Prefixes(p) |-> IF q \in DOMAIN f THEN f[q] ELSE DirNode]

\* os.RemoveAll (lambda_service.go:60): the path and everything below it
RemoveAll(f, p) ==
    [q \in {r \in DOMAIN f : ~IsPrefix(p, r)} |-> f[q]]

\* os.OpenFile(O_CREATE|O_RDWR) followed by io.Copy of n bytes from offset 0
\* (lambda_service.go:68-73): an existing file keeps the bytes beyond n
WriteFile(f, p, bytes) ==
    LET old == IF p \in DOMAIN f THEN f[p].data ELSE <<>>
        kept == IF Len(old) > Len(bytes) THEN SubSeq(old, Len(bytes) + 1, Len(old))
                ELSE <<>>
    IN  [q \in DOMAIN f \cup {p} |-> IF q = p THEN FileNode(bytes \o kept) ELSE f[q]]

(***************************************************************************)
(* Function names.  filepath.Join(d, name) splits a name at its slashes.   *)
(***************************************************************************)
Names == {"mytest", "mytest/sub"}

\* lambda_service.go:46  filepath.Join(d, name), relative to d
NamePath(name) ==
    CASE name = "mytest"     -> <<"mytest">>
      [] name = "mytest/sub" -> <<"mytest", "sub">>

\* Faults the file system can answer a staging with: none, a failing
\* MkdirAll, a failing OpenFile, an io.Copy that fails after n bytes.
NoFault == [kind |-> "none", n |-> 0]
StageFaults ==
    {NoFault, [kind |-> "mkdir", n |-> 0], [kind |-> "open", n |-> 0]}
    \cup {[kind |-> "write", n |-> k] : k \in 0..1}

Min(a, b) == IF a < b THEN a ELSE b

\* Staging mutant: the pre-existence check is skipped.
putZippedCodeNoExistCheck(f, name, zippedFile, fault) ==
    LET newDir  == NamePath(name)
        made    == MkdirAll(f, newDir)
        zipped  == DecodeString(zippedFile)
    IN  IF ~zipped.ok
        THEN [fs |-> RemoveAll(made, newDir), size |-> 0,
              err |-> Err(ErrCodeInvalidZipFileException, "unable to decode from base64")]
        ELSE [fs |-> WriteFile(made, newDir \o <<"code.zip">>, zipped.bytes),
              size |-> Len(zipped.bytes), err |-> NoError]

\* Staging mutant: the cleanup on failure is missing.
putZippedCodeNoCleanup(f, name, zippedFile, fault) ==
    LET newDir  == NamePath(name)
        made    == MkdirAll(f, newDir)
        zipped  == DecodeString(zippedFile)
    IN  IF Stat(f, newDir).info
        THEN [fs |-> f, size |-> 0,
              err |-> Err(ErrCodeResourceInUseException, "already created")]
        ELSE IF ~zipped.ok
        THEN [fs |-> made, size |-> 0,
              err |-> Err(ErrCodeInvalidZipFileException, "unable to decode from base64")]
        ELSE [fs |-> WriteFile(made, newDir \o <<"code.zip">>, zipped.bytes),
              size |-> Len(zipped.bytes), err |-> NoError]

\* Staging mutant: the error of io.Copy does not reach the deferred
\* cleanup, so a failed write leaves the directory and the partial file.
putZippedCodeWriteNoCleanup(f, name, zippedFile, fault) ==
    LET newDir  == NamePath(name)
        made    == MkdirAll(f, newDir)
        zipped  == DecodeString(zippedFile)
        codeZip == newDir \o <<"code.zip">>
        written == Min(fault.n, Len(zipped.bytes))
    IN  IF Stat(f, newDir).info
        THEN [fs |-> f, size |-> 0,
              err |-> Err(ErrCodeResourceInUseException, "already created")]
        ELSE IF fault.kind = "mkdir"
        THEN [fs |-> f, size |-> 0,
              err |-> Err(ErrCodeServiceException, "failed to create directory")]
        ELSE IF ~zipped.ok
        THEN [fs |-> RemoveAll(made, newDir), size |-> 0,
              err |-> Err(ErrCodeInvalidZipFileException, "unable to decode from base64")]
        ELSE IF fault.kind = "open"
        THEN [fs |-> RemoveAll(made, newDir), size |-> 0,
              err |-> Err(ErrCodeServiceException, "failed to put zipfile")]
        ELSE IF fault.kind = "write"
        THEN [fs |-> WriteFile(made, codeZip, SubSeq(zipped.bytes, 1, written)),
              size |-> written,
              err |-> Err(ErrCodeServiceException, "failed to put zipfile")]
        ELSE [fs |-> WriteFile(made, codeZip, zipped.bytes),
              size |-> Len(zipped.bytes), err |-> NoError]

\* lambda_service.go:45-78  putZippedCode(d, name, zippedFile): the file
\* system it leaves and the (size, err) it returns
putZippedCode(f, name, zippedFile, fault) ==
    LET newDir  == NamePath(name)
        st      == Stat(f, newDir)
        made    == MkdirAll(f, newDir)
        zipped  == DecodeString(zippedFile)
        codeZip == newDir \o <<"code.zip">>
        written == Min(fault.n, Len(zipped.bytes))
    IN  IF st.info                                            \* line 48
        THEN [fs |-> f, size |-> 0,
              err |-> Err(ErrCodeResourceInUseException, "already created")]
        ELSE IF st.err # "nil" /\ st.err # "PathError"        \* lines 50-53
        THEN [fs |-> f, size |-> 0,
              err |-> Err(ErrCodeResourceInUseException, "unexpected error")]
        ELSE IF fault.kind = "mkdir"                          \* lines 55-57
        THEN [fs |-> f, size |-> 0,
              err |-> Err(ErrCodeServiceException, "failed to create directory")]
        ELSE IF ~zipped.ok                                    \* lines 63-67, 58-62
        THEN [fs |-> RemoveAll(made, newDir), size |-> 0,
              err |-> Err(ErrCodeInvalidZipFileException, "unable to decode from base64")]
        ELSE IF fault.kind = "open"                           \* lines 68-72, 58-62
        THEN [fs |-> RemoveAll(made, newDir), size |-> 0,
              err |-> Err(ErrCodeServiceException, "failed to put zipfile")]
        ELSE IF fault.kind = "write"                          \* lines 73-77, 58-62
        THEN [fs |-> RemoveAll(WriteFile(made, codeZip, SubSeq(zipped.bytes, 1, written)),
                               newDir),
              size |-> written,
              err |-> Err(ErrCodeServiceException, "failed to put zipfile")]
        ELSE [fs |-> WriteFile(made, codeZip, zipped.bytes),  \* lines 73, 77
              size |-> Len(zipped.bytes), err |-> NoError]

(***************************************************************************)
(* The container engine as the gateway sees it, and RunImage               *)
(* (docker.go:228-246, 302-390).                                           *)
(***************************************************************************)
\* The engine's answers to the three requests of a launch.
\*   pull:   "transport"  DoRequest failed
\*           "ok"         2xx, the progress stream ends with end-of-stream
\*           "status"     non-2xx with an error body, read to end-of-stream
\*           "readerr"    a line read fails with an error that is not EOF
\*   create: "transport", "status" (non-2xx), "badbody" (2xx, undecodable
\*           body), "warnings" (2xx with warnings), "ok"
\*   start:  "transport", "status" (non-2xx), "ok"
PullOutcomes == {"transport", "ok", "status", "readerr"}
CreateOutcomes == {"transport", "status", "badbody", "warnings", "ok"}
StartOutcomes == {"transport", "status", "ok"}

\* docker.go:228-246  pullImage: only a transport error is returned; the
\* answer's status is never looked at, and the read loop ends on EOF alone
pullImage(o) ==
    CASE o = "transport" -> [returns |-> TRUE, err |-> "transport"]
      [] o = "ok"        -> [returns |-> TRUE, err |-> "nil"]
      [] o = "status"    -> [returns |-> TRUE, err |-> "nil"]
      [] o = "readerr"   -> [returns |-> FALSE, err |-> "nil"]

\* docker.go:302-351  createContainer: the error it returns
createContainer(o) ==
    CASE o = "transport" -> "transport"      \* lines 335-337
      [] o = "status"    -> "status"         \* lines 339-341
      [] o = "badbody"   -> "decode"         \* lines 343-345
      [] o = "warnings"  -> "warnings"       \* lines 347-349
      [] o = "ok"        -> "nil"            \* line 350

\* Start mutant: the answer to the start request is not looked at.
startContainerUnchecked(o) == "nil"

\* docker.go:353-364  startContainer: the error it returns
startContainer(o) ==
    CASE o = "transport" -> "transport"
      [] o = "status"    -> "status"
      [] o = "ok"        -> "nil"

NextId(eng) == IdAt(Cardinality(DOMAIN eng.containers) + 1)

\* The engine after a create answered o: 2xx answers leave a new container.
EngineCreated(eng, params, o) ==
    IF o \in {"badbody", "warnings", "ok"}
    THEN [eng EXCEPT !.containers =
            [c \in DOMAIN @ \cup {NextId(eng)} |->
                IF c \in DOMAIN @ THEN @[c]
                ELSE [name |-> params.Name, started |-> FALSE]]]
    ELSE eng

\* The engine after a start of container id answered o.
EngineStarted(eng, id, o) ==
    IF o = "ok" THEN [eng EXCEPT !.containers[id].started = TRUE] ELSE eng

\* docker.go:372-390  RunImage: the engine it leaves, the requests it made,
\* and the (binding, err) it returns; returns = FALSE when it never returns
RunImage(eng, params, o) ==
    LET pull    == pullImage(o.pull)
        id      == NextId(eng)
        created == EngineCreated(eng, params, o.create)
        started == EngineStarted(created, id, o.start)
    IN  IF ~pull.returns                                       \* lines 238-244
        THEN [engine |-> eng, returns |-> FALSE, calls |-> <<"pull">>,
              id |-> IdAt(0), err |-> "nil"]
        ELSE IF pull.err # "nil"                               \* lines 373-375
        THEN [engine |-> eng, returns |-> TRUE, calls |-> <<"pull">>,
              id |-> IdAt(0), err |-> pull.err]
        ELSE IF createContainer(o.create) # "nil"              \* lines 377-380
        THEN [engine |-> created, returns |-> TRUE, calls |-> <<"pull", "create">>,
              id |-> IdAt(0), err |-> createContainer(o.create)]
        ELSE IF startContainer(o.start) # "nil"                \* lines 382-384
        THEN [engine |-> started, returns |-> TRUE,
              calls |-> <<"pull", "create", "start">>,
              id |-> IdAt(0), err |-> startContainer(o.start)]
        ELSE [engine |-> started, returns |-> TRUE,            \* lines 386-389
              calls |-> <<"pull", "create", "start">>, id |-> id, err |-> "nil"]

\* The answers the engine can give one launch.  The engine may hold the
\* image already, so a create can succeed whatever the pull answered.  The
\* answer to a request that is never sent is left at one value.
LaunchOutcomes ==
    {o \in [pull : PullOutcomes, create : CreateOutcomes, start : StartOutcomes] :
        /\ (pullImage(o.pull).err # "nil" \/ ~pullImage(o.pull).returns)
              => (o.create = "transport" /\ o.start = "transport")
        /\ createContainer(o.create) # "nil" => o.start = "transport"}

\* the answers left unused by a Create that sends no request
NoLaunch == [pull |-> "transport", create |-> "transport", start |-> "transport"]

(***************************************************************************)
(* Requests to the function service.                                       *)
(***************************************************************************)
\* Code payloads: two that decode (to 1 byte, across a line break, and to 3
\* bytes), the undecodable payload of TestPutZippedCode ("aaaii"), one with
\* a bad padding, one with a character outside the alphabet.
Payloads ==
    {<<"Q", "Q", "LF", "=", "=">>,
     <<"Q", "a", "i", "A">>,
     <<"a", "a", "a", "i", "i">>,
     <<"Q", "Q", "=">>,
     <<"Q", "!", "Q", "Q">>}

\* input.Code: an inline archive, or a bucket reference (ZipFile is nil)
InlineCode(p) == [isNil |-> FALSE, zipNil |-> FALSE, ZipFile |-> p, S3Bucket |-> NilStr]
S3Code == [isNil |-> FALSE, zipNil |-> TRUE, ZipFile |-> <<>>, S3Bucket |-> "aaaaa"]
NilCode == [isNil |-> TRUE, zipNil |-> TRUE, ZipFile |-> <<>>, S3Bucket |-> NilStr]

Runtimes == {"go1.x", "go1.14"}

\* lambda_service_test.go:106  &lambda.CreateFunctionInput{}
EmptyInput ==
    [FunctionName |-> NilStr, Runtime |-> NilStr, Handler |-> NilStr, Role |-> NilStr,
     Code |-> NilCode, MemorySize |-> NilInt, Timeout |-> NilInt, hasEnv |-> FALSE]

\* lambda_service_test.go:174-189  the request of TestServiceCreate/success,
\* for a name and a payload
TestInput(name, p) ==
    [FunctionName |-> name, Runtime |-> "go1.x", Handler |-> "fake", Role |-> "foobar",
     Code |-> InlineCode(p), MemorySize |-> 128, Timeout |-> 16, hasEnv |-> TRUE]

\* The requests Create is given: every combination of name, runtime tag and
\* code, with and without a memory size; the empty request; a request whose
\* memory size is below the minimum; a request without Environment.
CreateInputs ==
    [FunctionName : Names, Runtime : Runtimes, Handler : {"fake"}, Role : {"foobar"},
     Code : {InlineCode(p) : p \in Payloads} \cup {S3Code},
     MemorySize : {NilInt, 128}, Timeout : {16}, hasEnv : {TRUE}]
    \cup {EmptyInput,
          [TestInput("mytest", <<"Q", "a", "i", "A">>) EXCEPT !.MemorySize = 64],
          [TestInput("mytest", <<"Q", "a", "i", "A">>) EXCEPT !.hasEnv = FALSE]}

\* input.Environment.Variables of a request that has an Environment
EnvVariables == [k \in {"hoge"} |-> "fuga"]

\* lambda_service.go:82  input.Validate() (aws-sdk-go v1.30.9): the required
\* fields are present, the name is not empty, the numbers are in range
Validate(input) ==
    IF \/ input.Code.isNil
       \/ input.FunctionName \in {NilStr, ""}
       \/ input.Handler = NilStr
       \/ input.Role = NilStr
       \/ input.Runtime = NilStr
       \/ (input.MemorySize # NilInt /\ input.MemorySize < 128)
       \/ (input.Timeout # NilInt /\ input.Timeout < 1)
    THEN Err(ErrInvalidParams, "InvalidParameter")
    ELSE NoError

\* lambda_service.go:96-101  the copy of the request's environment
NoVariables == [k \in {} |-> ""]
EnvsOf(input) == IF input.hasEnv THEN EnvVariables ELSE NoVariables

\* lambda_service.go:102-108  the launch request Create hands to RunImage
RunImageConfigOf(input) ==
    [Name |-> <<"wheelamb-", input.FunctionName>>,
     Dir |-> NamePath(input.FunctionName),
     Tag |-> input.Runtime,
     Handler |-> input.Handler,
     Envs |-> EnvsOf(input)]

\* Identifier mutant: the region segment is left out.
FunctionArnOfNoRegion(name) ==
    <<"arn", "aws", "lambda", "000000000000", "function", name>>

\* lambda_service.go:119  the function's resource identifier, by segment
FunctionArnOf(name) ==
    <<"arn", "aws", "lambda", awsConfRegion, "000000000000", "function", name>>

\* lambda_service.go:112-128  the record Create builds
LambdaFunctionOf(input, size, containerID, n) ==
    [RevisionID |-> <<"uuid", n>>,
     Version |-> "$LATEST",
     CodeSha256 |-> <<"sha256", input.Code.ZipFile>>,
     LastModified |-> <<"time", n>>,
     FunctionName |-> input.FunctionName,
     FunctionArn |-> FunctionArnOf(input.FunctionName),
     MemorySize |-> input.MemorySize,
     Handler |-> input.Handler,
     Runtime |-> input.Runtime,
     Timeout |-> input.Timeout,
     CodeSize |-> size,
     envs |-> EnvsOf(input),
     containerID |-> containerID]

(***************************************************************************)
(* The function service (lambda_service.go:20-145).                        *)
(***************************************************************************)
\* What the last operation was given (its request, the answer of the file
\* system, the answers of the engine) and what came of it: how it ended, the
\* error, record and size it returned, the requests it had the gateway send.
Outcome(op, input, fault, o, result, err, rec, size, calls) ==
    [op |-> op, input |-> input, fault |-> fault, launch |-> o, result |-> result,
     err |-> err, rec |-> rec, size |-> size, calls |-> calls]

NoRecord == <<>>

\* Registration mutant: the record is stored before the launch is checked.
RegisteredPoolEager(p, name, lf, run) ==
    [n \in DOMAIN p \cup {name} |-> IF n = name THEN lf ELSE p[n]]

\* Registration mutant: the record is stored whenever the engine created a
\* container, started or not.
RegisteredPoolOnCreated(p, name, lf, run) ==
    IF run.returns /\ Len(run.calls) = 3
    THEN [n \in DOMAIN p \cup {name} |-> IF n = name THEN lf ELSE p[n]]
    ELSE p

\* lambda_service.go:109-129  s.pool[name] = lf, reached only when RunImage
\* returned no error
RegisteredPool(p, name, lf, run) ==
    IF run.returns /\ run.err = "nil"
    THEN [n \in DOMAIN p \cup {name} |-> IF n = name THEN lf ELSE p[n]]
    ELSE p

\* Allow-list mutant: every tag is let through.
RuntimeAvailableAny(tag) == TRUE

\* lambda_service.go:85  _, ok := availableTags[*input.Runtime]
RuntimeAvailable(tag) == tag \in availableTags

\* lambda_service.go:81-131  Create(ctx, input), for one request, one answer
\* of the file system and one answer of the engine
\* Archive-check mutant: a request without inline archive is let through.
ZipFileMissingNever(input) == FALSE

\* lambda_service.go:88  input.Code.ZipFile == nil
ZipFileMissing(input) == input.Code.zipNil

CreateWith(input, fault, o) ==
    LET name   == input.FunctionName
        staged == putZippedCode(fs, name, input.Code.ZipFile, fault)
        run    == RunImage(engine, RunImageConfigOf(input), o)
        lf     == LambdaFunctionOf(input, staged.size, run.id, serial + 1)
    IN  IF Validate(input) # NoError                          \* lines 82-84
        THEN /\ last' = Outcome("Create", input, fault, o, "returned", Validate(input), NoRecord, 0, <<>>)
             /\ UNCHANGED <<fs, pool, engine, serial>>
        ELSE IF ~RuntimeAvailable(input.Runtime)               \* lines 85-87
        THEN /\ last' = Outcome("Create", input, fault, o, "returned",
                                 Err(ErrCodeInvalidRuntimeException, "invalid runtime"),
                                 NoRecord, 0, <<>>)
             /\ UNCHANGED <<fs, pool, engine, serial>>
        ELSE IF ZipFileMissing(input)                          \* lines 88-90
        THEN /\ last' = Outcome("Create", input, fault, o, "returned",
                                 Err(ErrCodeInvalidZipFileException, "requires zipfile"),
                                 NoRecord, 0, <<>>)
             /\ UNCHANGED <<fs, pool, engine, serial>>
        ELSE IF staged.err # NoError                           \* lines 91-95
        THEN /\ fs' = staged.fs
             /\ last' = Outcome("Create", input, fault, o, "returned", staged.err, NoRecord,
                                 staged.size, <<>>)
             /\ UNCHANGED <<pool, engine, serial>>
        ELSE /\ fs' = staged.fs                                \* lines 96-108
             /\ engine' = run.engine
             /\ pool' = IF run.returns /\ input.MemorySize # NilInt
                                       /\ input.Timeout # NilInt
                        THEN RegisteredPool(pool, name, lf, run)
                        ELSE pool
             /\ IF ~run.returns                                \* RunImage never returns
                THEN /\ last' = Outcome("Create", input, fault, o, "blocked", NoError, NoRecord,
                                        staged.size, run.calls)
                     /\ UNCHANGED serial
                ELSE IF run.err # "nil"                        \* lines 109-111
                THEN /\ last' = Outcome("Create", input, fault, o, "returned",
                                        Err(ErrCodeServiceException,
                                            "failed to start container"),
                                        NoRecord, staged.size, run.calls)
                     /\ UNCHANGED serial
                ELSE IF input.MemorySize = NilInt \/ input.Timeout = NilInt
                THEN \* lines 120, 123: a nil pointer is dereferenced
                     /\ last' = Outcome("Create", input, fault, o, "panicked", NoError, NoRecord,
                                        staged.size, run.calls)
                     /\ serial' = serial + 1
                ELSE /\ last' = Outcome("Create", input, fault, o, "returned", NoError, <<lf>>,
                                        staged.size, run.calls)
                     /\ serial' = serial + 1

\* lambda_service.go:81-131  Create, for every request and every answer of
\* its collaborators that the request gets to see
Create ==
    /\ UNCHANGED <<kvars, rvars, gvars, cvars>>
    /\ \E input \in CreateInputs :
           IF \/ Validate(input) # NoError
              \/ ~RuntimeAvailable(input.Runtime)
              \/ ZipFileMissing(input)
           THEN CreateWith(input, NoFault, NoLaunch)
           ELSE \E fault \in StageFaults :
                   IF putZippedCode(fs, input.FunctionName, input.Code.ZipFile, fault).err
                          # NoError
                   THEN CreateWith(input, fault, NoLaunch)
                   ELSE \E o \in LaunchOutcomes :
                           CreateWith(input, fault, o)

\* the request of an operation that takes a function name only
NameInput(name) == [EmptyInput EXCEPT !.FunctionName = name]

\* lambda_service.go:133-136  InvokeSync returns (nil, nil)
InvokeSync ==
    \E name \in Names :
        /\ UNCHANGED <<kvars, rvars, gvars, cvars>>
        /\ last' = Outcome("InvokeSync", NameInput(name), NoFault, NoLaunch,
                            "returned", NoError, NoRecord, 0, <<>>)
        /\ UNCHANGED <<fs, pool, engine, serial>>

\* lambda_service.go:138-141  InvokeAsync returns (nil, nil)
InvokeAsync ==
    \E name \in Names :
        /\ UNCHANGED <<kvars, rvars, gvars, cvars>>
        /\ last' = Outcome("InvokeAsync", NameInput(name), NoFault, NoLaunch,
                            "returned", NoError, NoRecord, 0, <<>>)
        /\ UNCHANGED <<fs, pool, engine, serial>>

\* lambda_service.go:143-145  find(name) returns s.pool[name]
find ==
    \E name \in Names :
        /\ UNCHANGED <<kvars, rvars, gvars, cvars>>
        /\ last' = Outcome("find", NameInput(name), NoFault, NoLaunch, "returned", NoError,
                            IF name \in DOMAIN pool THEN <<pool[name]>> ELSE NoRecord, 0,
                            <<>>)
        /\ UNCHANGED <<fs, pool, engine, serial>>

\* lambda_service.go:28-34  NewLambdaService(docker, dir), on an empty
\* directory and an engine that holds no container of the service
InitService ==
    /\ fs = [q \in {<<>>} |-> DirNode]
    /\ pool = [n \in {} |-> NoRecord]
    /\ engine = [containers |-> [c \in {} |-> NoRecord]]
    /\ serial = 0
    /\ last = Outcome("NewLambdaService", EmptyInput, NoFault, NoLaunch, "returned",
                     NoError, NoRecord, 0, <<>>)

(***************************************************************************)
(* The function registry (unnamed/part_000:69-101).  Here a string is the  *)
(* sequence of its pieces, a piece being ":" or a run of other characters, *)
(* so that formatting an identifier and splitting it at its colons are     *)
(* computed as fmt.Sprintf and strings.Split compute them.                 *)
(***************************************************************************)
MaxRevisions == 2

\* the region of the process-wide configuration, as such a string
awsConfRegionString == <<awsConfRegion>>

\* lambda_service.go:119  fmt.Sprintf("arn:aws:lambda:%s:000000000000:function:%s",
\*                                   *awsConf.Region, name)
SprintfArn(region, name) ==
    <<"arn", ":", "aws", ":", "lambda", ":">> \o region
        \o <<":", "000000000000", ":", "function", ":">> \o name

\* part_000:89  strings.Split(arn, ":"): the pieces between the colons; a
\* string without colon (the empty one too) gives one part
RECURSIVE Split(_)
Split(s) ==
    IF \A k \in 1..Len(s) : s[k] # ":"
    THEN <<s>>
    ELSE LET k == CHOOSE i \in 1..Len(s) :
                      s[i] = ":" /\ \A j \in 1..(i - 1) : s[j] # ":"
         IN  <<SubSeq(s, 1, k - 1)>> \o Split(SubSeq(s, k + 1, Len(s)))

\* part_000:90  the six parts an identifier has to start with
ExpectedParts ==
    <<<<"arn">>, <<"aws">>, <<"lambda">>, awsConfRegionString, <<"000000000000">>,
      <<"function">>>>

\* What a registry read returns: a record, nil, or no return at all when
\* the read indexes parts beyond its length (a run-time panic).
Found(lf) == [panics |-> FALSE, lf |-> <<lf>>]
Absent == [panics |-> FALSE, lf |-> NoRecord]
Panics == [panics |-> TRUE, lf |-> NoRecord]

\* part_000:82-84  r.mapping[name]
Lookup(m, name) == IF name \in DOMAIN m THEN Found(m[name]) ELSE Absent

\* Parsing mutant: the account part is not compared.
PartMatchesButAccount(parts, i) == i = 5 \/ parts[i] = ExpectedParts[i]

\* part_000:91  parts[i] != p, for the i-th of the six expected parts
PartMatches(parts, i) == parts[i] = ExpectedParts[i]

\* part_000:90-95  the loop over the expected parts from the i-th on, then
\* the lookup of parts[6]; an index beyond the parts panics
RECURSIVE GetFromARNLoop(_, _, _)
GetFromARNLoop(m, parts, i) ==
    IF i > Len(ExpectedParts)
    THEN IF Len(parts) < 7 THEN Panics ELSE Lookup(m, parts[7])
    ELSE IF i > Len(parts) THEN Panics
    ELSE IF ~PartMatches(parts, i) THEN Absent
    ELSE GetFromARNLoop(m, parts, i + 1)

\* part_000:87-96  GetFromARN(arn) on the mapping m
GetFromARNOf(m, arn) == GetFromARNLoop(m, Split(arn), 1)

\* Function names of the registry: a plain one, and a pair of which one is
\* the other followed by a colon and more.
RegistryNames == {<<"mytest">>, <<"my">>, <<"my", ":", "fn">>}

\* The records handed to Register: MaxRevisions different records per name.
RegistryRecord(name, rev) ==
    [FunctionName |-> name,
     FunctionArn |-> SprintfArn(awsConfRegionString, name),
     RevisionID |-> <<"uuid", rev>>]
RegistryRecords ==
    {RegistryRecord(name, rev) : name \in RegistryNames, rev \in 1..MaxRevisions}

\* The names looked up: those of the registry and one never registered.
LookupNames == RegistryNames \cup {<<"ghost">>}

\* the string of the given parts, joined by colons
RECURSIVE JoinColon(_)
JoinColon(parts) ==
    IF Len(parts) = 0 THEN <<>>
    ELSE IF Len(parts) = 1 THEN parts[1]
    ELSE parts[1] \o <<":">> \o JoinColon(Tail(parts))

\* The identifiers GetFromARN is given: the identifier of every name that
\* is looked up; that of "mytest" with one of its six leading parts
\* replaced; the same with a version suffix; identifiers that are too
\* short (the empty string, prefixes of a well-formed one, one with a
\* foreign service part).
ArnInputs ==
    {SprintfArn(awsConfRegionString, name) : name \in LookupNames}
    \cup {JoinColon([i \in 1..7 |->
                        IF i = k THEN <<"x">>
                        ELSE IF i = 7 THEN <<"mytest">> ELSE ExpectedParts[i]])
             : k \in 1..6}
    \cup {SprintfArn(awsConfRegionString, <<"mytest">>) \o <<":", "1">>}
    \cup {<<>>,
          JoinColon(SubSeq(ExpectedParts, 1, 3)),
          JoinColon(ExpectedParts),
          JoinColon(<<<<"arn">>, <<"aws">>, <<"s3">>>>)}

\* an operation of the registry, its argument and what it returned
RegistryOutcome(op, arg, result) == [op |-> op, arg |-> arg, result |-> result]

\* part_000:75-79  NewLambdaRegistry
InitRegistry ==
    /\ mapping = [n \in {} |-> NoRecord]
    /\ rlast = RegistryOutcome("NewLambdaRegistry", <<>>, Absent)

\* Registration mutant: a name that is registered keeps its record.
RegisteredMappingKeepFirst(m, lf) ==
    [n \in DOMAIN m \cup {lf.FunctionName} |-> IF n \in DOMAIN m THEN m[n] ELSE lf]

\* part_000:100  r.mapping[lf.FunctionName] = lf
RegisteredMapping(m, lf) ==
    [n \in DOMAIN m \cup {lf.FunctionName} |-> IF n = lf.FunctionName THEN lf ELSE m[n]]

\* part_000:99-101  Register(lf)
Register ==
    \E lf \in RegistryRecords :
        /\ mapping' = RegisteredMapping(mapping, lf)
        /\ rlast' = RegistryOutcome("Register", lf, Absent)
        /\ UNCHANGED <<kvars, svars, gvars, cvars>>

\* part_000:82-84  Get(name)
Get ==
    \E name \in LookupNames :
        /\ rlast' = RegistryOutcome("Get", name, Lookup(mapping, name))
        /\ UNCHANGED <<kvars, svars, gvars, cvars, mapping>>

\* part_000:87-96  GetFromARN(arn)
GetFromARN ==
    \E arn \in ArnInputs :
        /\ rlast' = RegistryOutcome("GetFromARN", arn, GetFromARNOf(mapping, arn))
        /\ UNCHANGED <<kvars, svars, gvars, cvars, mapping>>

(***************************************************************************)
(* Construction of the container gateway (docker.go:137-226) and the       *)
(* container configuration it gives a launch (docker.go:302-334).  A       *)
(* connection string is the sequence of its pieces, the separator "://"    *)
(* being a piece of its own.                                               *)
(***************************************************************************)
\* most launches one gateway history makes
MaxLaunches == 2

\* docker.go:24
defaultNetwork == "wheelamb_default"

\* docker.go:140  strings.Split(host, "://")[0]: the text before the first
\* separator, the whole string when it has none
RECURSIVE SchemePart(_)
SchemePart(host) ==
    IF host = <<>> \/ Head(host) = "://" THEN <<>>
    ELSE <<Head(host)>> \o SchemePart(Tail(host))

\* docker.go:142, 149  strings.ReplaceAll(host, scheme + "://", "")
RECURSIVE ReplaceAllScheme(_, _)
ReplaceAllScheme(host, scheme) ==
    IF host = <<>> THEN <<>>
    ELSE IF Len(host) >= 2 /\ host[1] = scheme /\ host[2] = "://"
    THEN ReplaceAllScheme(SubSeq(host, 3, Len(host)), scheme)
    ELSE <<Head(host)>> \o ReplaceAllScheme(Tail(host), scheme)

NoClient == [basePath |-> <<>>, dial |-> <<>>]

\* docker.go:137-161  newClient(host, logger)
newClient(host) ==
    IF SchemePart(host) = <<"unix">>                          \* lines 141-147
    THEN [err |-> "nil",
          cli |-> [basePath |-> <<"http", "://", "localhost", "/v1.40">>,
                   dial |-> <<"unix">> \o ReplaceAllScheme(host, "unix")]]
    ELSE IF SchemePart(host) = <<"tcp">>                      \* lines 148-150
    THEN [err |-> "nil",
          cli |-> [basePath |-> <<"http", "://">> \o ReplaceAllScheme(host, "tcp")
                                    \o <<"/v1.40">>,
                   dial |-> <<>>]]
    ELSE [err |-> "invalid host", cli |-> NoClient]           \* lines 151-152

\* The mounts an inspected container can report.
Mount(type, name, destination) == [Type |-> type, Name |-> name, Destination |-> destination]
MountLists ==
    {<<>>,
     <<Mount("volume", "code", "/var/task")>>,
     <<Mount("bind", "", "/var/task"), Mount("volume", "data", "/data")>>}

\* The engine's answers to GET /containers/{hostname}/json: a transport
\* error, 404, another error status, 200 with an undecodable body, 200 with
\* a body that has no HostConfig, 200 with a host configuration and mounts.
InspectAnswer(kind, mode, mounts) == [kind |-> kind, NetworkMode |-> mode, Mounts |-> mounts]
InspectAnswers ==
    {InspectAnswer(k, "", <<>>) : k \in {"transport", "404", "500", "badbody",
                                        "nohostconfig"}}
    \cup {InspectAnswer("200", n, ms) : n \in {"bridge", "wheelamb_default"},
                                        ms \in MountLists}

NoConf == [NetworkMode |-> "", Mounts |-> <<>>]

\* docker.go:204-226  inspectHostConfigFromContainer(ctx, name)
inspectHostConfigFromContainer(a) ==
    CASE a.kind = "transport" ->                              \* lines 206-208
           [panics |-> FALSE, err |-> "transport", conf |-> NoConf]
      [] a.kind = "404" ->                                    \* lines 211-212
           [panics |-> FALSE, err |-> "nil",
            conf |-> [NetworkMode |-> "", Mounts |-> <<>>]]
      [] a.kind = "500" ->                                    \* lines 214-215
           [panics |-> FALSE, err |-> "message", conf |-> NoConf]
      [] a.kind = "badbody" ->                                \* lines 221-223
           [panics |-> FALSE, err |-> "decode", conf |-> NoConf]
      [] a.kind = "nohostconfig" ->                           \* line 224, nil HostConfig
           [panics |-> TRUE, err |-> "nil", conf |-> NoConf]
      [] a.kind = "200" ->                                    \* lines 224-225
           [panics |-> FALSE, err |-> "nil",
            conf |-> [NetworkMode |-> a.NetworkMode, Mounts |-> a.Mounts]]

\* docker.go:188-192  the name of the last volume mounted at /var/task
RECURSIVE VolumeOf(_, _)
VolumeOf(mounts, volume) ==
    IF mounts = <<>> THEN volume
    ELSE VolumeOf(Tail(mounts),
                  IF Head(mounts).Type = "volume" /\ Head(mounts).Destination = "/var/task"
                  THEN Head(mounts).Name ELSE volume)

NoGateway == [made |-> FALSE, apiClient |-> NoClient, networkName |-> "", volume |-> ""]

\* docker.go:164-195  NewDockerGateway(host, logLevel), given whether
\* os.Hostname succeeds and the engine's answer to the self-inspection: the
\* gateway, the error, the requests sent to the engine
NewDockerGatewayOf(host, hostnameOk, a) ==
    LET c    == newClient(host)
        insp == inspectHostConfigFromContainer(a)
    IN  IF c.err # "nil"                                      \* lines 168-171
        THEN [result |-> "returned", gw |-> NoGateway, err |-> c.err, requests |-> <<>>]
        ELSE IF ~hostnameOk                                   \* lines 178-181
        THEN [result |-> "returned", gw |-> NoGateway, err |-> "hostname",
              requests |-> <<>>]
        ELSE IF insp.panics
        THEN [result |-> "panicked", gw |-> NoGateway, err |-> "nil",
              requests |-> <<"inspect">>]
        ELSE IF insp.err # "nil"                              \* lines 182-185
        THEN [result |-> "returned", gw |-> NoGateway, err |-> insp.err,
              requests |-> <<"inspect">>]
        ELSE [result |-> "returned",                          \* lines 187-194
              gw |-> [made |-> TRUE, apiClient |-> c.cli,
                      networkName |-> insp.conf.NetworkMode,
                      volume |-> VolumeOf(insp.conf.Mounts, "")],
              err |-> "nil", requests |-> <<"inspect">>]

\* createContainer mutant: the container joins the default network and binds
\* no named volume, whatever the gateway recorded.
createContainerConfigDefaults(g, params) ==
    [Image |-> <<"docker.io/lambci/lambda", ":", params.Tag>>,
     Cmd |-> <<params.Dir, params.Handler>>,
     Binds |-> <<<<"", ":/var/task:ro,delegated">>>>,
     NetworkMode |-> defaultNetwork,
     AutoRemove |-> TRUE,
     EndpointsConfig |-> [n \in {defaultNetwork} |-> [Aliases |-> <<params.Name>>]]]

\* docker.go:310-329  the container configuration createContainer sends
createContainerConfigOf(g, params) ==
    [Image |-> <<"docker.io/lambci/lambda", ":", params.Tag>>,
     Cmd |-> <<params.Dir, params.Handler>>,
     Binds |-> <<<<g.volume, ":/var/task:ro,delegated">>>>,
     NetworkMode |-> g.networkName,
     AutoRemove |-> TRUE,
     EndpointsConfig |-> [n \in {g.networkName} |-> [Aliases |-> <<params.Name>>]]]

NoContainerConfig == <<>>

\* Connection strings: the two supported schemes, another scheme, the bare
\* words "unix" and "tcp", a bare path, the empty string, a string with two
\* separators.
GatewayHosts ==
    {<<"unix", "://", "/var/run/docker.sock">>,
     <<"tcp", "://", "docker:2375">>,
     <<"http", "://", "docker:2375">>,
     <<"unix">>,
     <<"tcp">>,
     <<"/var/run/docker.sock">>,
     <<>>,
     <<"ssh", "://", "unix", "://", "sock">>}

GatewayOutcome(op, host, hostnameOk, a, o, result, err, requests, conf) ==
    [op |-> op, host |-> host, hostnameOk |-> hostnameOk, answer |-> a, launch |-> o,
     result |-> result, err |-> err, requests |-> requests, conf |-> conf]

\* no gateway is constructed yet
InitGateway ==
    /\ gw = NoGateway
    /\ glast = GatewayOutcome("none", <<>>, TRUE, InspectAnswer("transport", "", <<>>),
                              NoLaunch, "returned", "nil", <<>>, NoContainerConfig)

\* docker.go:164-195  NewDockerGateway: the process constructs a gateway;
\* when construction fails it has none
NewDockerGateway ==
    \E host \in GatewayHosts : \E hostnameOk \in BOOLEAN : \E a \in InspectAnswers :
        LET r == NewDockerGatewayOf(host, hostnameOk, a)
        IN  /\ gw' = r.gw
            /\ glast' = GatewayOutcome("NewDockerGateway", host, hostnameOk, a, NoLaunch,
                                       r.result, r.err, r.requests, NoContainerConfig)
            /\ UNCHANGED <<kvars, svars, rvars, cvars>>

\* docker.go:372-390  RunImage on the constructed gateway: the requests it
\* sends and the container configuration of its create request
GatewayRunImage ==
    /\ gw.made
    /\ Cardinality(DOMAIN engine.containers) < MaxLaunches
    /\ \E name \in Names : \E o \in LaunchOutcomes :
          LET params == RunImageConfigOf(TestInput(name, <<"Q", "a", "i", "A">>))
              run    == RunImage(engine, params, o)
          IN  /\ engine' = run.engine
              /\ glast' = GatewayOutcome("RunImage", <<>>, TRUE,
                                         InspectAnswer("transport", "", <<>>), o,
                                         IF run.returns THEN "returned" ELSE "blocked",
                                         run.err, run.calls,
                                         IF Len(run.calls) >= 2
                                         THEN createContainerConfigOf(gw, params)
                                         ELSE NoContainerConfig)
    /\ UNCHANGED <<kvars, rvars, cvars, gw, fs, pool, serial, last>>

(***************************************************************************)
(* Concurrent calls of the function service.  The service holds no lock    *)
(* (lambda_service.go:21-25), so calls made by different goroutines        *)
(* interleave at every file-system call, engine call and map access.       *)
(***************************************************************************)
\* the goroutines that call Create concurrently
Callers == {1, 2}

\* The locals of a Create: the error and size of staging, the state of the
\* code file it opened ("none", "open", "unlinked": removed from the
\* directory while held open), the container of its launch.
NoLocals == [err |-> NoError, size |-> 0, file |-> "none", id |-> IdAt(0)]

\* a request of a concurrent Create: the name and the payload
RaceRequest(name, p) == [name |-> name, payload |-> p]

\* no concurrent call is under way
InitCallers ==
    /\ cpc = [p \in Callers |-> "idle"]
    /\ creq = [p \in Callers |-> RaceRequest("mytest", <<"Q", "a", "i", "A">>)]
    /\ cloc = [p \in Callers |-> NoLocals]
    /\ rpc = "idle"
    /\ xpc = "idle"

(***************************************************************************)
(* The engine's answers to POST /containers/{id}/kill, as KillMulti        *)
(* distinguishes them (docker.go:414-430).                                 *)
(***************************************************************************)
KillOutcomes == {"ok", "transport", "status", "bodyerr"}

\* docker.go:416-430: the branch an answer takes.  A transport error is
\* appended at line 417; a non-2xx answer appends at line 427 (its body could
\* not be read) or at line 429 (its body was read): either way one error of
\* the non-2xx kind.  A 2xx answer appends nothing.
KillBranch(o) ==
    CASE o = "ok"        -> "ok"
      [] o = "transport" -> "transport"
      [] o = "bodyerr"   -> "status"
      [] o = "status"    -> "status"

\* docker.go:417/427/429: the error value appended for the attempt at list
\* position i that took branch b
KillError(i, b) == [pos |-> i, kind |-> b]

Positions == 1..Len(ids)

\* Semaphore mutant: the channel never refuses a token.
SemaphoreHasRoomUnbounded == TRUE

\* docker.go:407  `semaphore <- struct{}{}` proceeds only while the buffer has room
SemaphoreHasRoom == semaphore < SemaphoreCap

\* wg.Wait mutant: returns without looking at the counter.
WaitGroupZeroIgnored == TRUE

\* docker.go:433  wg.Wait() returns once the counter is zero
WaitGroupZero == wg = 0

(***************************************************************************)
(* KillMulti, the calling goroutine.                                       *)
(***************************************************************************)
\* Short-circuiting mutant: the loop gives up once an error was recorded.
KillLoopContinuesUntilError == ki < Len(ids) /\ errs = <<>>

\* docker.go:406  `for _, id := range ids`: identifiers are left to start
KillLoopContinues == ki < Len(ids)

\* docker.go:406-409: one iteration of the range loop: acquire a slot,
\* wg.Add(1), start the goroutine for the next identifier.
KillSpawn ==
    /\ kpc = "loop"
    /\ KillLoopContinues
    /\ SemaphoreHasRoom
    /\ semaphore' = semaphore + 1
    /\ wg' = wg + 1
    /\ ki' = ki + 1
    /\ gpc' = [gpc EXCEPT ![ki + 1] = "start"]
    /\ UNCHANGED <<svars, rvars, gvars, cvars>>
    /\ UNCHANGED <<ids, kpc, gloc, errs, issued, outcome, kret>>

\* docker.go:406/433: the range loop is exhausted; the caller reaches wg.Wait()
KillLoopEnd ==
    /\ kpc = "loop"
    /\ ~KillLoopContinues
    /\ kpc' = "wait"
    /\ UNCHANGED <<svars, rvars, gvars, cvars>>
    /\ UNCHANGED <<ids, ki, semaphore, wg, gpc, gloc, errs, issued, outcome, kret>>

\* docker.go:433-434: wg.Wait() returns, KillMulti returns errs as an error
KillReturn ==
    /\ kpc = "wait"
    /\ WaitGroupZero
    /\ kpc' = "done"
    /\ kret' = ErrListToError(errs)
    /\ UNCHANGED <<svars, rvars, gvars, cvars>>
    /\ UNCHANGED <<ids, ki, semaphore, wg, gpc, gloc, errs, issued, outcome>>

(***************************************************************************)
(* KillMulti, the goroutine of list position i (docker.go:409-431).        *)
(***************************************************************************)
\* docker.go:414  DoRequest sends POST /containers/{id}/kill
KillRequest(i) ==
    /\ gpc[i] = "start"
    /\ issued' = [issued EXCEPT ![i] = @ + 1]
    /\ gpc' = [gpc EXCEPT ![i] = "inflight"]
    /\ UNCHANGED <<svars, rvars, gvars, cvars>>
    /\ UNCHANGED <<ids, kpc, ki, semaphore, wg, gloc, errs, outcome, kret>>

\* docker.go:414-430: DoRequest returns; the goroutine takes the branch of
\* the answer: return on 2xx, otherwise go on to append an error.
KillResponse(i) ==
    /\ gpc[i] = "inflight"
    /\ \E o \in KillOutcomes :
          /\ outcome' = [outcome EXCEPT ![i] = KillBranch(o)]
          /\ gpc' = [gpc EXCEPT ![i] =
                        IF KillBranch(o) = "ok" THEN "deferred" ELSE "append"]
    /\ UNCHANGED <<svars, rvars, gvars, cvars>>
    /\ UNCHANGED <<ids, kpc, ki, semaphore, wg, gloc, errs, issued, kret>>

\* docker.go:417/427/429  errs = append(errs, err), first half: the
\* goroutine loads the shared slice.  No lock guards errs, so loads and
\* stores of different goroutines interleave.
KillAppendLoad(i) ==
    /\ gpc[i] = "append"
    /\ gloc' = [gloc EXCEPT ![i] = errs]
    /\ gpc' = [gpc EXCEPT ![i] = "store"]
    /\ UNCHANGED <<svars, rvars, gvars, cvars>>
    /\ UNCHANGED <<ids, kpc, ki, semaphore, wg, errs, issued, outcome, kret>>

\* docker.go:417/427/429  second half: the slice grown from the loaded value
\* is stored back into errs.
KillAppendStore(i) ==
    /\ gpc[i] = "store"
    /\ errs' = Append(gloc[i], KillError(i, outcome[i]))
    /\ gloc' = [gloc EXCEPT ![i] = <<>>]
    /\ gpc' = [gpc EXCEPT ![i] = "deferred"]
    /\ UNCHANGED <<svars, rvars, gvars, cvars>>
    /\ UNCHANGED <<ids, kpc, ki, semaphore, wg, issued, outcome, kret>>

\* docker.go:410-411  the deferred function runs: wg.Done()
KillDone(i) ==
    /\ gpc[i] = "deferred"
    /\ wg' = wg - 1
    /\ gpc' = [gpc EXCEPT ![i] = "release"]
    /\ UNCHANGED <<svars, rvars, gvars, cvars>>
    /\ UNCHANGED <<ids, kpc, ki, semaphore, gloc, errs, issued, outcome, kret>>

\* Release mutant: the deferred function does not receive from the channel.
SemaphoreReceivedNothing(s) == s

\* docker.go:412  `<-semaphore` takes one token out of the buffer
SemaphoreReceived(s) == s - 1

\* docker.go:412  the deferred function runs: <-semaphore
KillRelease(i) ==
    /\ gpc[i] = "release"
    /\ semaphore > 0
    /\ semaphore' = SemaphoreReceived(semaphore)
    /\ gpc' = [gpc EXCEPT ![i] = "exited"]
    /\ UNCHANGED <<svars, rvars, gvars, cvars>>
    /\ UNCHANGED <<ids, kpc, ki, wg, gloc, errs, issued, outcome, kret>>

\* The state at entry of KillMulti(ctx, ids), for every list of at most
\* MaxIds identifiers (docker.go:402-405).
InitKill ==
    /\ InitService
    /\ InitRegistry
    /\ InitGateway
    /\ InitCallers
    /\ \E n \in 0..MaxIds : ids = [i \in 1..n |-> IdAt(i)]
    /\ kpc = "loop"
    /\ ki = 0
    /\ semaphore = 0
    /\ wg = 0
    /\ gpc = [i \in Positions |-> "idle"]
    /\ gloc = [i \in Positions |-> <<>>]
    /\ errs = <<>>
    /\ issued = [i \in Positions |-> 0]
    /\ outcome = [i \in Positions |-> "none"]
    /\ kret = NotReturned

NextKill ==
    \/ KillSpawn
    \/ KillLoopEnd
    \/ KillReturn
    \/ \E i \in Positions : KillRequest(i)
    \/ \E i \in Positions : KillResponse(i)
    \/ \E i \in Positions : KillAppendLoad(i)
    \/ \E i \in Positions : KillAppendStore(i)
    \/ \E i \in Positions : KillDone(i)
    \/ \E i \in Positions : KillRelease(i)

SpecKill == InitKill /\ [][NextKill]_vars

\* KillMulti under a fair scheduler and an engine that answers: the Go
\* runtime runs every runnable goroutine, and each kill request returns
\* (KillResponse).  No step of KillMulti can be repeated, so weak fairness of
\* the next-state relation gives every goroutine its steps.
SpecKillFair == SpecKill /\ WF_vars(NextKill)

(***************************************************************************)
(* Close (lambda_service.go:36-43): the service collects the container     *)
(* identifiers of its registry and hands them to KillMulti.                *)
(***************************************************************************)
\* lambda_service.go:38  `for _, lf := range s.pool`: Go visits the entries of
\* a map in no fixed order, so every order of the names can come out
Orders(S) ==
    {s \in [1..Cardinality(S) -> S] :
        \A i \in 1..Cardinality(S) : \A j \in 1..Cardinality(S) :
            i # j => s[i] # s[j]}

\* Close mutant: the error of KillMulti is dropped.
CloseResultNil(ret) == NilError

\* lambda_service.go:42  `return s.docker.KillMulti(...)`: what Close returns
\* when KillMulti returned ret
CloseResult(ret) == ret

\* lambda_service.go:37-42: Close builds ids from the registry (lines 37-41)
\* and calls KillMulti with it (line 42; docker.go:402-405 is its entry).
CloseCall ==
    /\ kpc = "idle"
    /\ \E order \in Orders(DOMAIN pool) :
          ids' = [i \in 1..Len(order) |-> pool[order[i]].containerID]
    /\ kpc' = "loop"
    /\ ki' = 0
    /\ semaphore' = 0
    /\ wg' = 0
    /\ gpc' = [i \in 1..Cardinality(DOMAIN pool) |-> "idle"]
    /\ gloc' = [i \in 1..Cardinality(DOMAIN pool) |-> <<>>]
    /\ errs' = <<>>
    /\ issued' = [i \in 1..Cardinality(DOMAIN pool) |-> 0]
    /\ outcome' = [i \in 1..Cardinality(DOMAIN pool) |-> "none"]
    /\ kret' = NotReturned
    /\ last' = Outcome("Close", EmptyInput, NoFault, NoLaunch, "running", NoError,
                       NoRecord, 0, <<"KillMulti">>)
    /\ UNCHANGED <<fs, pool, engine, serial>>
    /\ UNCHANGED <<rvars, gvars, cvars>>

\* lambda_service.go:42: KillMulti has returned and Close returns its error
CloseReturn ==
    /\ kpc = "done"
    /\ last.op = "Close"
    /\ last.result = "running"
    /\ kpc' = "closed"
    /\ last' = [last EXCEPT !.result = "returned", !.err = CloseResult(kret)]
    /\ UNCHANGED <<fs, pool, engine, serial>>
    /\ UNCHANGED <<rvars, gvars, cvars>>
    /\ UNCHANGED <<ids, ki, semaphore, wg, gpc, gloc, errs, issued, outcome, kret>>

\* The launch answers of an engine that fails nothing.
LaunchOk == [pull |-> "ok", create |-> "ok", start |-> "ok"]

\* A launch whose start request the engine refuses, and one whose create
\* request the engine answers with warnings: both leave a container that
\* was never started.
LaunchStartRefused == [pull |-> "ok", create |-> "ok", start |-> "status"]
LaunchWarnings == [pull |-> "ok", create |-> "warnings", start |-> "transport"]

\* One Create of such a history: the name and the engine's answers.
Created(name, o) == [name |-> name, launch |-> o]

\* The service after Creates of the given names with the given answers of
\* the engine, in that order, each with the request of
\* TestServiceCreate/success: the same staging, launch and registration that
\* Create performs (lambda_service.go:91-130).  A Create that staging
\* refuses leaves the service as it was.
RECURSIVE ServiceAfter(_)
ServiceAfter(order) ==
    IF order = <<>>
    THEN [fs |-> [q \in {<<>>} |-> DirNode],
          pool |-> [n \in {} |-> NoRecord],
          engine |-> [containers |-> [c \in {} |-> NoRecord]],
          serial |-> 0,
          last |-> Outcome("NewLambdaService", EmptyInput, NoFault, NoLaunch,
                           "returned", NoError, NoRecord, 0, <<>>)]
    ELSE LET s      == ServiceAfter(SubSeq(order, 1, Len(order) - 1))
             o      == order[Len(order)].launch
             input  == TestInput(order[Len(order)].name, <<"Q", "a", "i", "A">>)
             staged == putZippedCode(s.fs, input.FunctionName, input.Code.ZipFile,
                                     NoFault)
             run    == RunImage(s.engine, RunImageConfigOf(input), o)
             lf     == LambdaFunctionOf(input, staged.size, run.id, s.serial + 1)
         IN  IF staged.err # NoError
             THEN [s EXCEPT !.last = Outcome("Create", input, NoFault, NoLaunch,
                                             "returned", staged.err, NoRecord, 0, <<>>)]
             ELSE IF run.err # "nil"
             THEN [fs |-> staged.fs,
                   pool |-> RegisteredPool(s.pool, input.FunctionName, lf, run),
                   engine |-> run.engine,
                   serial |-> s.serial,
                   last |-> Outcome("Create", input, NoFault, o, "returned",
                                    Err(ErrCodeServiceException,
                                        "failed to start container"),
                                    NoRecord, staged.size, run.calls)]
             ELSE [fs |-> staged.fs,
                   pool |-> RegisteredPool(s.pool, input.FunctionName, lf, run),
                   engine |-> run.engine,
                   serial |-> s.serial + 1,
                   last |-> Outcome("Create", input, NoFault, o, "returned",
                                    NoError, <<lf>>, staged.size, run.calls)]

\* The histories of Creates a Close is checked after: none, either name,
\* both in either order, and histories in which a launch failed after the
\* engine had created the container.
CreateOrders ==
    {<<>>,
     <<Created("mytest", LaunchOk)>>,
     <<Created("mytest/sub", LaunchOk)>>,
     <<Created("mytest", LaunchOk), Created("mytest/sub", LaunchOk)>>,
     <<Created("mytest/sub", LaunchOk), Created("mytest", LaunchOk)>>,
     <<Created("mytest", LaunchStartRefused)>>,
     <<Created("mytest", LaunchWarnings), Created("mytest/sub", LaunchOk)>>,
     <<Created("mytest/sub", LaunchOk), Created("mytest", LaunchStartRefused)>>}

\* A service that has created functions and on which Close is not yet called.
InitClose ==
    /\ \E order \in CreateOrders :
          /\ fs = ServiceAfter(order).fs
          /\ pool = ServiceAfter(order).pool
          /\ engine = ServiceAfter(order).engine
          /\ serial = ServiceAfter(order).serial
          /\ last = ServiceAfter(order).last
    /\ ids = <<>>
    /\ kpc = "idle"
    /\ ki = 0
    /\ semaphore = 0
    /\ wg = 0
    /\ gpc = <<>>
    /\ gloc = <<>>
    /\ errs = <<>>
    /\ issued = <<>>
    /\ outcome = <<>>
    /\ kret = NotReturned
    /\ InitRegistry
    /\ InitGateway
    /\ InitCallers

NextClose ==
    \/ CloseCall
    \/ NextKill
    \/ CloseReturn

SpecClose == InitClose /\ [][NextClose]_vars

(***************************************************************************)
(* The constructed gateway in use: RunImage and KillMulti calls in any     *)
(* number and interleaving on a gateway that NewDockerGateway returned     *)
(* (docker.go:164-195).                                                    *)
(***************************************************************************)
\* docker.go:402-405  KillMulti is called on the gateway with the ids of
\* containers of the engine; a returned KillMulti may be followed by another
GatewayKillMulti ==
    /\ gw.made
    /\ kpc \in {"idle", "done"}
    /\ \E order \in Orders(DOMAIN engine.containers) :
          /\ ids' = order
          /\ gpc' = [i \in 1..Len(order) |-> "idle"]
          /\ gloc' = [i \in 1..Len(order) |-> <<>>]
          /\ issued' = [i \in 1..Len(order) |-> 0]
          /\ outcome' = [i \in 1..Len(order) |-> "none"]
    /\ kpc' = "loop"
    /\ ki' = 0
    /\ semaphore' = 0
    /\ wg' = 0
    /\ errs' = <<>>
    /\ kret' = NotReturned
    /\ glast' = GatewayOutcome("KillMulti", <<>>, TRUE,
                               InspectAnswer("transport", "", <<>>), NoLaunch,
                               "running", "nil", <<>>, NoContainerConfig)
    /\ UNCHANGED <<svars, rvars, cvars, gw>>

\* the state after a successful NewDockerGateway (docker.go:194)
InitGatewayUse ==
    /\ InitService
    /\ InitRegistry
    /\ InitCallers
    /\ \E a \in InspectAnswers :
          LET r == NewDockerGatewayOf(<<"unix", "://", "/var/run/docker.sock">>, TRUE, a)
          IN  /\ r.gw.made
              /\ gw = r.gw
              /\ glast = GatewayOutcome("NewDockerGateway",
                                        <<"unix", "://", "/var/run/docker.sock">>, TRUE, a,
                                        NoLaunch, r.result, r.err, r.requests,
                                        NoContainerConfig)
    /\ ids = <<>>
    /\ kpc = "idle"
    /\ ki = 0
    /\ semaphore = 0
    /\ wg = 0
    /\ gpc = <<>>
    /\ gloc = <<>>
    /\ errs = <<>>
    /\ issued = <<>>
    /\ outcome = <<>>
    /\ kret = NotReturned

NextGatewayUse ==
    \/ GatewayRunImage
    \/ GatewayKillMulti
    \/ NextKill

SpecGatewayUse == InitGatewayUse /\ [][NextGatewayUse]_vars

(***************************************************************************)
(* Concurrent Creates, step by step (lambda_service.go:45-78, 91-130),     *)
(* with a concurrent find (lines 143-145) and a concurrent Close (lines    *)
(* 37-42).                                                                 *)
(***************************************************************************)
\* The requests of the racing Creates: valid requests (they pass lines
\* 82-90) with a payload that decodes or the one that does not.
RaceRequests ==
    {RaceRequest("mytest", <<"Q", "a", "i", "A">>),
     RaceRequest("mytest", <<"a", "a", "a", "i", "i">>),
     RaceRequest("mytest/sub", <<"Q", "Q", "LF", "=", "=">>)}

RaceInput(r) == TestInput(r.name, r.payload)

CodeZipOf(r) == NamePath(r.name) \o <<"code.zip">>

\* MkdirAll mutant: an existing directory is an error, as with os.Mkdir.
MkdirExclusiveError(f, p) == IF p \in DOMAIN f THEN "exists" ELSE "nil"

\* os.MkdirAll (lambda_service.go:55): an existing directory is no error;
\* a file in the way is
MkdirAllError(f, p) ==
    IF \E q \in Prefixes(p) \cap DOMAIN f : f[q].kind = "file" THEN "ENOTDIR" ELSE "nil"

\* lambda_service.go:47-54  os.Stat(newDir) and the switch on its result
CreateStat(p) ==
    /\ cpc[p] = "stat"
    /\ IF Stat(fs, NamePath(creq[p].name)).info
       THEN /\ cpc' = [cpc EXCEPT ![p] = "returned"]
            /\ cloc' = [cloc EXCEPT ![p].err =
                          Err(ErrCodeResourceInUseException, "already created")]
       ELSE /\ cpc' = [cpc EXCEPT ![p] = "mkdir"]
            /\ cloc' = cloc
    /\ UNCHANGED <<kvars, svars, rvars, gvars, creq, rpc, xpc>>

\* lambda_service.go:55-57  os.MkdirAll(newDir, 0755)
CreateMkdirAll(p) ==
    /\ cpc[p] = "mkdir"
    /\ IF MkdirAllError(fs, NamePath(creq[p].name)) # "nil"
       THEN /\ cpc' = [cpc EXCEPT ![p] = "returned"]
            /\ cloc' = [cloc EXCEPT ![p].err =
                          Err(ErrCodeServiceException, "failed to create directory")]
            /\ fs' = fs
       ELSE /\ cpc' = [cpc EXCEPT ![p] = "decode"]
            /\ cloc' = cloc
            /\ fs' = MkdirAll(fs, NamePath(creq[p].name))
    /\ UNCHANGED <<kvars, rvars, gvars, pool, engine, serial, last, creq, rpc, xpc>>

\* lambda_service.go:63-67  base64 decoding of the payload
CreateDecode(p) ==
    /\ cpc[p] = "decode"
    /\ IF DecodeString(creq[p].payload).ok
       THEN /\ cpc' = [cpc EXCEPT ![p] = "open"]
            /\ cloc' = cloc
       ELSE /\ cpc' = [cpc EXCEPT ![p] = "cleanup"]
            /\ cloc' = [cloc EXCEPT ![p].err =
                          Err(ErrCodeInvalidZipFileException,
                              "unable to decode from base64")]
    /\ UNCHANGED <<kvars, svars, rvars, gvars, creq, rpc, xpc>>

\* lambda_service.go:68-72  os.OpenFile(newDir/code.zip, O_CREATE|O_RDWR):
\* fails when the directory is gone; creates the file when it is missing and
\* opens the existing one, contents kept, when it is there
CreateOpenFile(p) ==
    /\ cpc[p] = "open"
    /\ IF NamePath(creq[p].name) \in DOMAIN fs
       THEN /\ cpc' = [cpc EXCEPT ![p] = "copy"]
            /\ cloc' = [cloc EXCEPT ![p].file = "open"]
            /\ fs' = WriteFile(fs, CodeZipOf(creq[p]), <<>>)
       ELSE /\ cpc' = [cpc EXCEPT ![p] = "cleanup"]
            /\ cloc' = [cloc EXCEPT ![p].err =
                          Err(ErrCodeServiceException, "failed to put zipfile")]
            /\ fs' = fs
    /\ UNCHANGED <<kvars, rvars, gvars, pool, engine, serial, last, creq, rpc, xpc>>

\* lambda_service.go:73-77  io.Copy into the open file: the bytes reach the
\* directory's file unless the file was removed while held open, in which
\* case they are written to a file no path leads to; putZippedCode returns
CreateCopy(p) ==
    /\ cpc[p] = "copy"
    /\ cpc' = [cpc EXCEPT ![p] = "launch"]
    /\ cloc' = [cloc EXCEPT ![p].size = Len(DecodeString(creq[p].payload).bytes)]
    /\ fs' = IF cloc[p].file = "open"
             THEN WriteFile(fs, CodeZipOf(creq[p]), DecodeString(creq[p].payload).bytes)
             ELSE fs
    /\ UNCHANGED <<kvars, rvars, gvars, pool, engine, serial, last, creq, rpc, xpc>>

\* lambda_service.go:58-62  the deferred function of a failed staging:
\* os.RemoveAll(newDir) removes the directory and all below it, whoever put
\* it there; files that other calls hold open below it are unlinked
CreateCleanup(p) ==
    /\ cpc[p] = "cleanup"
    /\ cpc' = [cpc EXCEPT ![p] = "returned"]
    /\ fs' = RemoveAll(fs, NamePath(creq[p].name))
    /\ cloc' = [q \in Callers |->
                  IF /\ cloc[q].file = "open"
                     /\ IsPrefix(NamePath(creq[p].name), CodeZipOf(creq[q]))
                  THEN [cloc[q] EXCEPT !.file = "unlinked"]
                  ELSE cloc[q]]
    /\ UNCHANGED <<kvars, rvars, gvars, pool, engine, serial, last, creq, rpc, xpc>>

\* The answers the engine gives the launch of a racing Create: it starts the
\* container or refuses the start; it refuses to create a container under a
\* name that one of its containers has.
RaceLaunches(eng, name) ==
    IF \E c \in DOMAIN eng.containers : eng.containers[c].name = <<"wheelamb-", name>>
    THEN {[pull |-> "ok", create |-> "status", start |-> "transport"]}
    ELSE {LaunchOk, LaunchStartRefused}

\* lambda_service.go:96-111  the launch: RunImage, and the return when it
\* failed
CreateRunImage(p) ==
    /\ cpc[p] = "launch"
    /\ \E o \in RaceLaunches(engine, creq[p].name) :
          LET run == RunImage(engine, RunImageConfigOf(RaceInput(creq[p])), o)
          IN  /\ engine' = run.engine
              /\ IF run.err # "nil"
                 THEN /\ cpc' = [cpc EXCEPT ![p] = "returned"]
                      /\ cloc' = [cloc EXCEPT ![p].err =
                                    Err(ErrCodeServiceException,
                                        "failed to start container")]
                 ELSE /\ cpc' = [cpc EXCEPT ![p] = "register"]
                      /\ cloc' = [cloc EXCEPT ![p].id = run.id]
    /\ UNCHANGED <<kvars, rvars, gvars, fs, pool, serial, last, creq, rpc, xpc>>

\* lambda_service.go:112-129  the record is built and the assignment
\* s.pool[name] = lf begins: the goroutine is inside the map write
CreateRegisterBegin(p) ==
    /\ cpc[p] = "register"
    /\ cpc' = [cpc EXCEPT ![p] = "writing"]
    /\ UNCHANGED <<kvars, svars, rvars, gvars, creq, cloc, rpc, xpc>>

\* lambda_service.go:129-130  the map write is done and Create returns
CreateRegisterEnd(p) ==
    /\ cpc[p] = "writing"
    /\ cpc' = [cpc EXCEPT ![p] = "returned"]
    /\ pool' = RegisteredMapping(pool,
                   LambdaFunctionOf(RaceInput(creq[p]), cloc[p].size, cloc[p].id,
                                    serial + 1))
    /\ serial' = serial + 1
    /\ UNCHANGED <<kvars, rvars, gvars, fs, engine, last, creq, cloc, rpc, xpc>>

\* lambda_service.go:143-145  find: the read of s.pool[name] begins
FindBegin ==
    /\ rpc = "idle"
    /\ rpc' = "reading"
    /\ UNCHANGED <<kvars, svars, rvars, gvars, cpc, creq, cloc, xpc>>

\* lambda_service.go:143-145  find: the read is done and find returns
FindEnd ==
    /\ rpc = "reading"
    /\ rpc' = "idle"
    /\ \E name \in Names :
          last' = Outcome("find", NameInput(name), NoFault, NoLaunch, "returned", NoError,
                          IF name \in DOMAIN pool THEN <<pool[name]>> ELSE NoRecord, 0,
                          <<>>)
    /\ UNCHANGED <<kvars, rvars, gvars, fs, pool, engine, serial, cpc, creq, cloc, xpc>>

\* lambda_service.go:38-41  Close: the range over s.pool begins
CloseCollectBegin ==
    /\ xpc = "idle"
    /\ xpc' = "collecting"
    /\ UNCHANGED <<kvars, svars, rvars, gvars, cpc, creq, cloc, rpc>>

\* lambda_service.go:38-42  Close: the range over s.pool is done and
\* KillMulti is called with the identifiers collected (its run is the
\* subject of SpecClose)
CloseCollectEnd ==
    /\ xpc = "collecting"
    /\ xpc' = "called"
    /\ \E order \in Orders(DOMAIN pool) :
          ids' = [i \in 1..Len(order) |-> pool[order[i]].containerID]
    /\ UNCHANGED <<svars, rvars, gvars, cpc, creq, cloc, rpc>>
    /\ UNCHANGED <<kpc, ki, semaphore, wg, gpc, gloc, errs, issued, outcome, kret>>

\* Two Creates have passed their request checks (lines 82-90) and are about
\* to stage, on a service that has created nothing.
InitRace ==
    /\ InitService
    /\ InitRegistry
    /\ InitGateway
    /\ creq \in [Callers -> RaceRequests]
    /\ cpc = [p \in Callers |-> "stat"]
    /\ cloc = [p \in Callers |-> NoLocals]
    /\ rpc = "idle"
    /\ xpc = "idle"
    /\ ids = <<>>
    /\ kpc = "idle"
    /\ ki = 0
    /\ semaphore = 0
    /\ wg = 0
    /\ gpc = <<>>
    /\ gloc = <<>>
    /\ errs = <<>>
    /\ issued = <<>>
    /\ outcome = <<>>
    /\ kret = NotReturned

NextRace ==
    \/ \E p \in Callers : CreateStat(p)
    \/ \E p \in Callers : CreateMkdirAll(p)
    \/ \E p \in Callers : CreateDecode(p)
    \/ \E p \in Callers : CreateOpenFile(p)
    \/ \E p \in Callers : CreateCopy(p)
    \/ \E p \in Callers : CreateCleanup(p)
    \/ \E p \in Callers : CreateRunImage(p)
    \/ \E p \in Callers : CreateRegisterBegin(p)
    \/ \E p \in Callers : CreateRegisterEnd(p)
    \/ FindBegin
    \/ FindEnd
    \/ CloseCollectBegin
    \/ CloseCollectEnd

SpecRace == InitRace /\ [][NextRace]_vars

\* The service with no KillMulti under way.
Init ==
    /\ InitService
    /\ InitRegistry
    /\ InitGateway
    /\ InitCallers
    /\ ids = <<>>
    /\ kpc = "idle"
    /\ ki = 0
    /\ semaphore = 0
    /\ wg = 0
    /\ gpc = <<>>
    /\ gloc = <<>>
    /\ errs = <<>>
    /\ issued = <<>>
    /\ outcome = <<>>
    /\ kret = NotReturned

Next ==
    \/ Create
    \/ InvokeSync
    \/ InvokeAsync
    \/ find

Spec == Init /\ [][Next]_vars

\* The registry alone: registrations and reads in any order.
NextRegistry ==
    \/ Register
    \/ Get
    \/ GetFromARN

SpecRegistry == Init /\ [][NextRegistry]_vars

\* The gateway alone: constructions and launches in any order.
NextGateway ==
    \/ NewDockerGateway
    \/ GatewayRunImage

SpecGateway == Init /\ [][NextGateway]_vars

(***************************************************************************)
(* Properties of KillMulti, checked under SpecKill.                        *)
(***************************************************************************)
\* Kill requests sent to the engine and not yet answered.
InFlight == {i \in Positions : gpc[i] = "inflight"}

\* List positions whose kill attempt failed (transport error or non-2xx).
Failed == {i \in Positions : outcome[i] \in {"transport", "status"}}

\* C1: at every instant of an execution of KillMulti, whatever the length of
\* the identifier list and whatever the engine answers, at most 3 kill
\* requests are in flight to the engine.
C1_AtMostThreeInFlight == Cardinality(InFlight) <= 3

\* C1 witness: three requests are in flight while a fourth identifier is
\* held back at the semaphore.
C1_Witness ==
    /\ Cardinality(InFlight) = 3
    /\ kpc = "loop"
    /\ ki < Len(ids)
    /\ semaphore = SemaphoreCap

\* C2: when KillMulti has returned, the aggregate error holds exactly one
\* entry for each attempt that failed and none for an attempt that
\* succeeded, under every interleaving of the workers.
C2_AggregateExact ==
    kpc = "done" =>
        /\ Len(kret.val) = Cardinality(Failed)
        /\ \A i \in Failed :
              Cardinality({k \in 1..Len(kret.val) : kret.val[k].pos = i}) = 1
        /\ \A k \in 1..Len(kret.val) : kret.val[k].pos \in Failed

\* C3: when KillMulti has returned, every attempt it started has finished:
\* no identifier is still waiting to be attempted, no kill request is in
\* flight, and no worker is still recording its result.
C3_ReturnsAfterAllAttempts ==
    kpc = "done" => \A i \in Positions : gpc[i] \in {"release", "exited"}

\* C3 witness: KillMulti has returned from a list longer than the
\* semaphore, with failed and successful attempts, while a worker has yet to
\* give its slot back.
C3_Witness ==
    /\ kpc = "done"
    /\ Len(ids) > SemaphoreCap
    /\ Failed # {}
    /\ Failed # Positions
    /\ \E i \in Positions : gpc[i] = "release"

\* C4: each kill is independent: no identifier ever gets more than one kill
\* request, and when KillMulti has returned every identifier of the list got
\* exactly one, whichever other requests failed.
C4_OneRequestPerIdentifier ==
    /\ \A i \in Positions : issued[i] <= 1
    /\ kpc = "done" => \A i \in Positions : issued[i] = 1

\* C4 witness: KillMulti has returned; the first two attempts failed (one by
\* transport, one by status) and the later identifiers were still attempted.
C4_Witness ==
    /\ kpc = "done"
    /\ Len(ids) = 4
    /\ outcome[1] = "transport"
    /\ outcome[2] = "status"
    /\ issued[3] = 1
    /\ issued[4] = 1

\* C5: when no kill attempt failed (the empty list included), the error
\* KillMulti returns is the no-error value: a caller's `err != nil` is false.
C5_NoFailureReturnsNil ==
    (kpc = "done" /\ Failed = {}) => IsNilError(kret)

(***************************************************************************)
(* Properties of the function service, over the behaviours of Spec.  A     *)
(* step of Spec that changes the state is one call of an operation; last'  *)
(* tells which call, with which request and which answers of the file      *)
(* system and of the engine.                                               *)
(***************************************************************************)
\* The request gets past the checks Create makes before it stages the code
\* (lambda_service.go:82-90): it is structurally valid, its runtime tag is
\* in the allow-list, and it carries an inline archive.
ReachesStaging(input) ==
    /\ Validate(input) = NoError
    /\ input.Runtime \in availableTags
    /\ ~input.Code.zipNil

\* The staging directory of a function name exists in file system f.
Staged(f, name) == NamePath(name) \in DOMAIN f

\* The three steps of a launch completed without error: the pull request
\* was answered and its progress stream read to its end (docker.go reads the
\* stream as opaque lines and does not look at the status of the answer),
\* the engine created the container, the engine started it.
LaunchSucceeded(o) ==
    /\ o.pull \in {"ok", "status"}
    /\ o.create = "ok"
    /\ o.start = "ok"

C7_StagedNameRejected ==
    /\ [](\A name \in Names : Staged(fs, name) =>
            \A p \in Payloads : \A fault \in StageFaults :
                putZippedCode(fs, name, p, fault) =
                    [fs |-> fs, size |-> 0,
                     err |-> Err(ErrCodeResourceInUseException, "already created")])
    /\ [][(/\ last'.op = "Create"
            /\ ReachesStaging(last'.input)
            /\ Staged(fs, last'.input.FunctionName)) =>
                /\ last'.result = "returned"
                /\ last'.err.code = ErrCodeResourceInUseException
                /\ last'.rec = NoRecord
                /\ last'.calls = <<>>
                /\ fs' = fs
                /\ pool' = pool
                /\ engine' = engine]_vars

\* C7 witness: a Create for a staged name was rejected with ResourceInUse
\* although its archive decodes, to bytes other than the staged ones, which
\* are still in place.
C7_Witness ==
    /\ last.op = "Create"
    /\ last.err.code = ErrCodeResourceInUseException
    /\ ReachesStaging(last.input)
    /\ DecodeString(last.input.Code.ZipFile).ok
    /\ NamePath(last.input.FunctionName) \o <<"code.zip">> \in DOMAIN fs
    /\ fs[NamePath(last.input.FunctionName) \o <<"code.zip">>].data
           # DecodeString(last.input.Code.ZipFile).bytes

\* C8: in every step, every record of the registry stays in the registry
\* unchanged and its container stays as the engine holds it; and a Create
\* for a registered name returns an error and no record, the error being
\* ResourceInUse whenever the request gets as far as staging.
C8_RegisteredRecordImmutable ==
    [][/\ \A n \in DOMAIN pool :
             /\ n \in DOMAIN pool'
             /\ pool'[n] = pool[n]
             /\ pool[n].containerID \in DOMAIN engine'.containers
             /\ engine'.containers[pool[n].containerID]
                    = engine.containers[pool[n].containerID]
       /\ (last'.op = "Create" /\ last'.input.FunctionName \in DOMAIN pool) =>
             /\ last'.result = "returned"
             /\ last'.err # NoError
             /\ last'.rec = NoRecord
             /\ ReachesStaging(last'.input) =>
                    last'.err.code = ErrCodeResourceInUseException]_vars

\* C8 witness: both names are registered, and a later Create for one of
\* them, with another archive than the registered one, was rejected with
\* ResourceInUse.
C8_Witness ==
    /\ DOMAIN pool = Names
    /\ last.op = "Create"
    /\ last.input.FunctionName \in DOMAIN pool
    /\ ReachesStaging(last.input)
    /\ last.err.code = ErrCodeResourceInUseException
    /\ pool[last.input.FunctionName].CodeSha256 # <<"sha256", last.input.Code.ZipFile>>
    /\ pool[last.input.FunctionName].RevisionID # <<"uuid", serial>>

\* C9: for every runtime tag outside the allow-list, a Create with an
\* otherwise valid request returns InvalidRuntime, leaves the file system,
\* the registry and the engine as they were and has the gateway send
\* nothing; so a name that was free before the call can still be staged
\* after it.
C9_InvalidRuntimeFailsFast ==
    [][(/\ last'.op = "Create"
        /\ Validate(last'.input) = NoError
        /\ last'.input.Runtime \notin availableTags) =>
            /\ last'.result = "returned"
            /\ last'.err = Err(ErrCodeInvalidRuntimeException, "invalid runtime")
            /\ last'.rec = NoRecord
            /\ last'.calls = <<>>
            /\ fs' = fs
            /\ pool' = pool
            /\ engine' = engine
            /\ ~Staged(fs, last'.input.FunctionName) =>
                   putZippedCode(fs', last'.input.FunctionName,
                                 <<"Q", "a", "i", "A">>, NoFault).err = NoError]_vars

\* C9 witness: a Create with the runtime tag "go1.14", a decodable archive
\* and a free name was rejected with InvalidRuntime.
C9_Witness ==
    /\ last.op = "Create"
    /\ last.input.Runtime = "go1.14"
    /\ Validate(last.input) = NoError
    /\ DecodeString(last.input.Code.ZipFile).ok
    /\ last.err.code = ErrCodeInvalidRuntimeException
    /\ ~Staged(fs, last.input.FunctionName)

\* A payload is acceptable to a standard padded base64 decoder: without its
\* line breaks its length is a multiple of four, every character is of the
\* alphabet except one or two '=' that end it.
NotNewline(c) == c \notin {"LF", "CR"}
WellFormedBase64(p) ==
    LET s == SelectSeq(p, NotNewline)
        n == Len(s)
    IN  /\ n % 4 = 0
        /\ \A k \in 1..n : s[k] \in B64Chars \/ (s[k] = "=" /\ k >= n - 1)
        /\ (n > 0 /\ s[n - 1] = "=") => s[n] = "="

\* C10: for every payload that is not well-formed base64, a Create that
\* gets as far as decoding (valid request, supported runtime, name not
\* staged, directory created) returns InvalidZipFile, the staging
\* directory of the name does not exist afterwards, the registry and the
\* engine are as they were and the gateway sent nothing; and putZippedCode
\* itself returns InvalidZipFile with size 0 and leaves no staging
\* directory.
C10_UndecodableArchiveRejected ==
    /\ [](\A name \in Names : ~Staged(fs, name) =>
            \A p \in Payloads : \A fault \in StageFaults :
                (~WellFormedBase64(p) /\ fault.kind # "mkdir") =>
                    /\ putZippedCode(fs, name, p, fault).err.code
                           = ErrCodeInvalidZipFileException
                    /\ putZippedCode(fs, name, p, fault).size = 0
                    /\ ~Staged(putZippedCode(fs, name, p, fault).fs, name))
    /\ [][(/\ last'.op = "Create"
            /\ ReachesStaging(last'.input)
            /\ ~Staged(fs, last'.input.FunctionName)
            /\ last'.fault.kind # "mkdir"
            /\ ~WellFormedBase64(last'.input.Code.ZipFile)) =>
                /\ last'.result = "returned"
                /\ last'.err.code = ErrCodeInvalidZipFileException
                /\ last'.rec = NoRecord
                /\ last'.calls = <<>>
                /\ ~Staged(fs', last'.input.FunctionName)
                /\ \A q \in DOMAIN fs' :
                       ~IsPrefix(NamePath(last'.input.FunctionName), q)
                /\ pool' = pool
                /\ engine' = engine]_vars

\* C10 witness: a Create with the payload "aaaii" for a free name was
\* rejected with InvalidZipFile and the name has no staging directory.
C10_Witness ==
    /\ last.op = "Create"
    /\ last.input.Code.ZipFile = <<"a", "a", "a", "i", "i">>
    /\ last.err = Err(ErrCodeInvalidZipFileException, "unable to decode from base64")
    /\ ~Staged(fs, last.input.FunctionName)
    /\ last.calls = <<>>

\* The paths of file system f at or below the staging directory of a name.
StagedPaths(f, name) == {q \in DOMAIN f : IsPrefix(NamePath(name), q)}

\* The staging directory of a name holds the complete code file: the
\* directory, and in it code.zip with exactly the given bytes.
StagedComplete(f, name, bytes) ==
    /\ StagedPaths(f, name) = {NamePath(name), NamePath(name) \o <<"code.zip">>}
    /\ f[NamePath(name)] = DirNode
    /\ f[NamePath(name) \o <<"code.zip">>] = FileNode(bytes)

\* C11: staging is all-or-nothing.  For every name without a staging
\* directory, every payload and every answer of the file system,
\* putZippedCode either returns no error and leaves the directory with the
\* complete code file (all decoded bytes, the size it returns), or returns
\* an error and leaves nothing at or below the directory; and so does every
\* Create that gets as far as staging such a name: its directory is
\* complete when the launch was attempted, and absent when Create returned
\* before the launch.
C11_StagingAllOrNothing ==
    /\ [](\A name \in Names : ~Staged(fs, name) =>
            \A p \in Payloads : \A fault \in StageFaults :
                \/ /\ putZippedCode(fs, name, p, fault).err = NoError
                   /\ WellFormedBase64(p)
                   /\ StagedComplete(putZippedCode(fs, name, p, fault).fs, name,
                                     DecodeString(p).bytes)
                   /\ putZippedCode(fs, name, p, fault).size = Len(DecodeString(p).bytes)
                \/ /\ putZippedCode(fs, name, p, fault).err # NoError
                   /\ StagedPaths(putZippedCode(fs, name, p, fault).fs, name) = {})
    /\ [][(/\ last'.op = "Create"
            /\ ReachesStaging(last'.input)
            /\ ~Staged(fs, last'.input.FunctionName)) =>
                IF last'.calls # <<>>
                THEN StagedComplete(fs', last'.input.FunctionName,
                                    DecodeString(last'.input.Code.ZipFile).bytes)
                ELSE /\ last'.err # NoError
                     /\ StagedPaths(fs', last'.input.FunctionName) = {}]_vars

\* C11 witness: a Create staged a 3-byte archive for a free name, the write
\* of code.zip failed after 1 byte, and the name has no staging directory.
C11_Witness ==
    /\ last.op = "Create"
    /\ last.fault = [kind |-> "write", n |-> 1]
    /\ Len(DecodeString(last.input.Code.ZipFile).bytes) = 3
    /\ last.size = 1
    /\ last.err = Err(ErrCodeServiceException, "failed to put zipfile")
    /\ StagedPaths(fs, last.input.FunctionName) = {}

\* C12: for every name without a staging directory, a Create with a
\* structurally valid request, a supported runtime tag and a well-formed
\* inline archive, on a file system that fails nothing and an engine that
\* answers pull, create and start with success, returns a record and no
\* error; the record is the registered one, and its CodeSize and the length
\* of the stored code.zip equal the number of decoded bytes.
C12_ValidCreateSucceeds ==
    [][(/\ last'.op = "Create"
        /\ ReachesStaging(last'.input)
        /\ WellFormedBase64(last'.input.Code.ZipFile)
        /\ ~Staged(fs, last'.input.FunctionName)
        /\ last'.fault = NoFault
        /\ last'.launch = [pull |-> "ok", create |-> "ok", start |-> "ok"]) =>
            /\ last'.result = "returned"
            /\ last'.err = NoError
            /\ last'.rec # NoRecord
            /\ last'.rec[1].CodeSize = Len(DecodeString(last'.input.Code.ZipFile).bytes)
            /\ Len(fs'[NamePath(last'.input.FunctionName) \o <<"code.zip">>].data)
                   = last'.rec[1].CodeSize
            /\ last'.input.FunctionName \in DOMAIN pool'
            /\ pool'[last'.input.FunctionName] = last'.rec[1]]_vars

\* C13: when Create has returned without error it returned a record, and
\* the registry holds that very record under the request's name; every
\* record of the registry carries its name and the identifier
\* arn:aws:lambda:<region>:000000000000:function:<name>; and a lookup by
\* name (find) returns the record the registry holds under the name.
C13_LookupReturnsCreatedRecord ==
    /\ (last.op = "Create" /\ last.result = "returned" /\ last.err = NoError) =>
           /\ last.rec # NoRecord
           /\ last.input.FunctionName \in DOMAIN pool
           /\ pool[last.input.FunctionName] = last.rec[1]
    /\ \A n \in DOMAIN pool :
           /\ pool[n].FunctionName = n
           /\ pool[n].FunctionArn
                  = <<"arn", "aws", "lambda", awsConfRegion, "000000000000", "function", n>>
    /\ last.op = "find" =>
           last.rec = IF last.input.FunctionName \in DOMAIN pool
                      THEN <<pool[last.input.FunctionName]>>
                      ELSE NoRecord

\* C13 witness: with both names registered, a lookup of the name created
\* last returned the record that Create built.
C13_Witness ==
    /\ DOMAIN pool = Names
    /\ last.op = "find"
    /\ last.rec # NoRecord
    /\ last.rec[1].RevisionID = <<"uuid", serial>>
    /\ last.rec[1].FunctionName = last.input.FunctionName
    /\ last.rec[1].FunctionArn[7] = last.input.FunctionName

\* The engine made a launch fail in a way RunImage reports: the pull request
\* could not be sent, or the create or the start was answered with a
\* failure (for create: transport error, non-2xx, undecodable body or
\* warnings).  A pull stream that breaks with a read error is not among
\* them: RunImage does not return from it.
LaunchFailed(o) ==
    \/ o.pull = "transport"
    \/ o.pull \in {"ok", "status"} /\ o.create # "ok"
    \/ o.pull \in {"ok", "status"} /\ o.create = "ok" /\ o.start # "ok"

\* C14: when staging succeeded and the launch fails, Create returns
\* ServiceException "failed to start container" and no record, the staged
\* directory stays on disk with its complete code file and the registry is
\* as it was, without an entry for the name; and a name that is staged but
\* not registered stays so in every step, every Create for it that gets as
\* far as staging returning ResourceInUse.
C14_FailedLaunchBlocksName ==
    [][/\ (/\ last'.op = "Create"
            /\ ReachesStaging(last'.input)
            /\ ~Staged(fs, last'.input.FunctionName)
            /\ last'.calls # <<>>
            /\ LaunchFailed(last'.launch)) =>
                /\ last'.result = "returned"
                /\ last'.err = Err(ErrCodeServiceException, "failed to start container")
                /\ last'.rec = NoRecord
                /\ StagedComplete(fs', last'.input.FunctionName,
                                  DecodeString(last'.input.Code.ZipFile).bytes)
                /\ pool' = pool
                /\ last'.input.FunctionName \notin DOMAIN pool'
       /\ \A n \in Names : (Staged(fs, n) /\ n \notin DOMAIN pool) =>
                /\ Staged(fs', n)
                /\ n \notin DOMAIN pool'
                /\ (/\ last'.op = "Create"
                    /\ last'.input.FunctionName = n
                    /\ ReachesStaging(last'.input)) =>
                        last'.err.code = ErrCodeResourceInUseException]_vars

\* C14 witness: the engine refused to start the container of a staged
\* function; Create returned "failed to start container", the code file is
\* on disk, the name is not registered and the container stays unstarted.
C14_Witness ==
    /\ last.op = "Create"
    /\ last.launch = [pull |-> "ok", create |-> "ok", start |-> "status"]
    /\ last.err = Err(ErrCodeServiceException, "failed to start container")
    /\ NamePath(last.input.FunctionName) \o <<"code.zip">> \in DOMAIN fs
    /\ last.input.FunctionName \notin DOMAIN pool
    /\ \E c \in DOMAIN engine.containers :
           /\ engine.containers[c].name = <<"wheelamb-", last.input.FunctionName>>
           /\ ~engine.containers[c].started

\* C15: for every structurally valid request with a supported runtime tag
\* and no inline archive (the code is given by bucket reference), Create
\* returns InvalidZipFile "requires zipfile" and no record, leaves the file
\* system, the registry and the engine as they were and has the gateway
\* send nothing.
C15_CodeByReferenceRejected ==
    [][(/\ last'.op = "Create"
        /\ Validate(last'.input) = NoError
        /\ last'.input.Runtime \in availableTags
        /\ last'.input.Code.zipNil) =>
            /\ last'.result = "returned"
            /\ last'.err = Err(ErrCodeInvalidZipFileException, "requires zipfile")
            /\ last'.rec = NoRecord
            /\ last'.calls = <<>>
            /\ fs' = fs
            /\ pool' = pool
            /\ engine' = engine]_vars

\* C15 witness: a Create whose code is a bucket reference, for a free name
\* and the runtime "go1.x", was rejected with InvalidZipFile.
C15_Witness ==
    /\ last.op = "Create"
    /\ last.input.Code = S3Code
    /\ last.input.Runtime = "go1.x"
    /\ Validate(last.input) = NoError
    /\ last.err.code = ErrCodeInvalidZipFileException
    /\ ~Staged(fs, last.input.FunctionName)

\* C16: the registry starts empty; every Create that returns an error,
\* whichever (validation, InvalidRuntime, InvalidZipFile, ResourceInUse,
\* ServiceException), returns no record and leaves the registry exactly as
\* it was; and the registry changes only in a Create that returns without
\* error.  So after failing Creates only, the registry is empty.
C16_FailedCreateLeavesRegistry ==
    /\ DOMAIN pool = {}
    /\ [][/\ (/\ last'.op = "Create"
               /\ last'.result = "returned"
               /\ last'.err # NoError) =>
                   /\ last'.rec = NoRecord
                   /\ pool' = pool
          /\ pool' # pool =>
                   /\ last'.op = "Create"
                   /\ last'.result = "returned"
                   /\ last'.err = NoError]_vars

\* C16 witness: with one function registered, a Create for the other name
\* failed at the launch and returned ServiceException; the registry still
\* holds the one record.
C16_Witness ==
    /\ DOMAIN pool = {"mytest"}
    /\ last.op = "Create"
    /\ last.input.FunctionName = "mytest/sub"
    /\ last.err.code = ErrCodeServiceException
    /\ last.calls = <<"pull", "create", "start">>
    /\ last.rec = NoRecord

\* The container identifiers of the registered functions.
RegisteredContainers == {pool[n].containerID : n \in DOMAIN pool}

\* C17: from the moment Close has called KillMulti, the identifier list is
\* the container identifiers of the registered functions, each once and
\* nothing else, and KillMulti is the one call Close made; when Close has
\* returned, it returned exactly the error value KillMulti returned, and
\* every identifier got the one kill request of that one call.
C17_CloseKillsRegistered ==
    /\ kpc # "idle" =>
           /\ last.op = "Close"
           /\ last.calls = <<"KillMulti">>
           /\ Len(ids) = Cardinality(DOMAIN pool)
           /\ {ids[i] : i \in 1..Len(ids)} = RegisteredContainers
    /\ (last.op = "Close" /\ last.result = "returned") =>
           /\ kpc = "closed"
           /\ last.err = kret
           /\ \A i \in Positions : issued[i] = 1

\* C17 witness: Close has returned from a registry of two functions, whose
\* identifiers it listed in the order opposite to their creation, and it
\* returned the error list of a failed kill.
C17_Witness ==
    /\ last.op = "Close"
    /\ last.result = "returned"
    /\ DOMAIN pool = Names
    /\ ids = <<pool["mytest/sub"].containerID, pool["mytest"].containerID>>
    /\ last.err.typ = "errList"
    /\ Len(last.err.val) = 1

\* C19 (as stated): an InvokeSync or InvokeAsync for a name that is not
\* registered returns a ResourceNotFound error and no response, and leaves
\* the registry, the staging directory and the engine as they were.
C19_InvokeUnregisteredNotFound ==
    [][(/\ last'.op \in {"InvokeSync", "InvokeAsync"}
        /\ last'.input.FunctionName \notin DOMAIN pool) =>
            /\ last'.result = "returned"
            /\ last'.err.code = "ResourceNotFoundException"
            /\ last'.rec = NoRecord
            /\ fs' = fs
            /\ pool' = pool
            /\ engine' = engine]_vars

\* C24: under a fair scheduler and an engine that answers every kill
\* request, KillMulti returns for every identifier list, also for lists
\* longer than the gate's three slots: every identifier gets its slot and
\* its one request, every goroutine exits and gives its slot back, and the
\* caller returns.
C24_KillMultiTerminates ==
    <>[](/\ kpc = "done"
         /\ ki = Len(ids)
         /\ \A i \in Positions : gpc[i] = "exited" /\ issued[i] = 1
         /\ semaphore = 0
         /\ wg = 0)

\* C24 witness: KillMulti returned for a list longer than the gate's three
\* slots, every goroutine having exited.
C24_Witness ==
    /\ Len(ids) > SemaphoreCap
    /\ kpc = "done"
    /\ \A i \in Positions : gpc[i] = "exited"

(***************************************************************************)
(* Properties of the launch and of staging as single calls, over the       *)
(* behaviours of Spec.                                                     *)
(***************************************************************************)
\* The launch of a Create ran: the request got past staging.
Launched(l) ==
    /\ l.op = "Create"
    /\ ReachesStaging(l.input)
    /\ l.calls # <<>>

\* C25 (as stated): RunImage sends pull, create, start in that order; when
\* a step fails (the pull is refused or answered with an error status or
\* its stream breaks, the create is refused or answers with warnings, the
\* start is refused) RunImage returns an error at once and sends no later
\* request; it returns a binding only when all three steps succeeded.
C25_RunImageStepsInOrder ==
    [][Launched(last') =>
          /\ \E k \in 1..3 : last'.calls = SubSeq(<<"pull", "create", "start">>, 1, k)
          /\ last'.launch.pull # "ok" =>
                /\ last'.calls = <<"pull">>
                /\ last'.result = "returned"
                /\ last'.err = Err(ErrCodeServiceException, "failed to start container")
          /\ (last'.launch.pull = "ok" /\ last'.launch.create # "ok") =>
                /\ last'.calls = <<"pull", "create">>
                /\ last'.result = "returned"
                /\ last'.err = Err(ErrCodeServiceException, "failed to start container")
          /\ (last'.launch.pull = "ok" /\ last'.launch.create = "ok"
                                      /\ last'.launch.start # "ok") =>
                /\ last'.result = "returned"
                /\ last'.err = Err(ErrCodeServiceException, "failed to start container")
          /\ last'.rec # NoRecord =>
                last'.launch = [pull |-> "ok", create |-> "ok", start |-> "ok"]]_vars

\* C26 (as stated): when a line read of the pull's progress stream fails
\* with an error other than end-of-stream, the pull step stops and returns
\* an error, so that the launch fails: Create returns ServiceException
\* after the pull request alone.
C26_PullReadErrorFails ==
    [][(Launched(last') /\ last'.launch.pull = "readerr") =>
          /\ last'.result = "returned"
          /\ last'.err = Err(ErrCodeServiceException, "failed to start container")
          /\ last'.calls = <<"pull">>]_vars

\* C29 (as stated): whenever putZippedCode returns an error, for every
\* name, payload and answer of the file system, the size it returns is 0.
C29_StageErrorSizeZero ==
    \A name \in Names : \A p \in Payloads : \A fault \in StageFaults :
        putZippedCode(fs, name, p, fault).err # NoError =>
            putZippedCode(fs, name, p, fault).size = 0

(***************************************************************************)
(* Containers of failed launches at teardown, over the behaviours of       *)
(* SpecClose.                                                              *)
(***************************************************************************)
\* the containers Close had KillMulti send a kill request for
KillTargets == {ids[i] : i \in 1..Len(ids)}

\* C27 (as stated): once Close has returned, every container the engine
\* was made to create is reaped: it was among the containers Close had
\* killed, or it ran and can exit into auto-removal.  A container that was
\* never started does not run, so it cannot exit; it has to be a target of
\* the teardown.
C27_FailedLaunchContainerReaped ==
    (last.op = "Close" /\ last.result = "returned") =>
        \A c \in DOMAIN engine.containers :
            c \in KillTargets \/ engine.containers[c].started

(***************************************************************************)
(* Properties of the gateway's construction, over the behaviours of        *)
(* SpecGateway.                                                            *)
(***************************************************************************)
\* The connection string starts with the given scheme and the separator.
HasScheme(host, scheme) == Len(host) >= 2 /\ host[1] = scheme /\ host[2] = "://"

\* C21 (as stated): a construction whose connection string starts neither
\* with unix:// nor with tcp:// returns the configuration error "invalid
\* host" and no gateway, and sends the engine no request.
C21_UnknownSchemeRejected ==
    [][(/\ glast'.op = "NewDockerGateway"
        /\ ~HasScheme(glast'.host, "unix")
        /\ ~HasScheme(glast'.host, "tcp")) =>
            /\ glast'.result = "returned"
            /\ glast'.err = "invalid host"
            /\ ~gw'.made
            /\ glast'.requests = <<>>]_vars

\* C28 (as stated): when the self-inspection is answered 404, construction
\* succeeds with the default network as the gateway's network name and no
\* volume; and every create request of a gateway so constructed names the
\* gateway's network, the default network.
C28_NotFoundFallsBackToDefaultNetwork ==
    /\ [][(/\ glast'.op = "NewDockerGateway"
           /\ newClient(glast'.host).err = "nil"
           /\ glast'.hostnameOk
           /\ glast'.answer.kind = "404") =>
               /\ glast'.result = "returned"
               /\ glast'.err = "nil"
               /\ gw'.made
               /\ gw'.networkName = defaultNetwork
               /\ gw'.volume = ""]_vars
    /\ [][(glast'.op = "RunImage" /\ glast'.conf # NoContainerConfig) =>
               /\ glast'.conf.NetworkMode = gw.networkName
               /\ DOMAIN glast'.conf.EndpointsConfig = {gw.networkName}]_vars

(***************************************************************************)
(* Properties of concurrent calls, over the behaviours of SpecRace.        *)
(***************************************************************************)
\* The Create of caller p is past the pre-existence check of line 47.
PastCheck(p) ==
    cpc[p] \in {"mkdir", "decode", "open", "copy", "cleanup", "launch", "register",
                "writing"}

\* The Create of caller p has returned from putZippedCode without error.
PastStaging(p) == cpc[p] \in {"launch", "register", "writing"} /\ cloc[p].err = NoError

\* C22: the pre-existence check excludes nobody.  A call that found no
\* directory at its check goes on whatever other calls do meanwhile: when
\* the directory has been created by another call before its own MkdirAll,
\* MkdirAll succeeds on the existing directory and the call goes on to
\* decode; and ResourceInUse is returned at the check only, never to a call
\* that is past it.
C22_CheckThenActRace ==
    /\ [](\A p \in Callers :
            cloc[p].err.code = ErrCodeResourceInUseException =>
                cpc[p] = "returned" /\ cloc[p].file = "none" /\ cloc[p].size = 0)
    /\ [][\A p \in Callers :
            (cpc[p] = "mkdir" /\ cpc'[p] # "mkdir" /\ Staged(fs, creq[p].name)) =>
                /\ cpc'[p] = "decode"
                /\ cloc'[p].err = NoError
                /\ Staged(fs', creq[p].name)]_vars

\* C22 witness: two Creates for the same new name are both past staging
\* without error: both passed the check before either had created the
\* directory, and neither failed with ResourceInUse.
C22_Witness ==
    /\ creq[1].name = creq[2].name
    /\ PastStaging(1)
    /\ PastStaging(2)
    /\ Staged(fs, creq[1].name)

\* A goroutine is inside a write of s.pool, or inside a read of it.
WritingPool == {p \in Callers : cpc[p] = "writing"}
ReadingPool == {a \in {"find", "Close"} :
                   \/ a = "find" /\ rpc = "reading"
                   \/ a = "Close" /\ xpc = "collecting"}

\* C23 (as stated): accesses of the registry mapping exclude each other:
\* in no reachable state is a goroutine inside a write of the mapping while
\* another is inside a write or a read of it.
C23_MappingAccessExclusive ==
    /\ Cardinality(WritingPool) <= 1
    /\ WritingPool # {} => ReadingPool = {}

\* C30 (as stated): in every reachable state of concurrent Creates every
\* registered function has its staging directory and its code file on
\* disk.
C30_RegisteredHasStagedCode ==
    \A n \in DOMAIN pool :
        /\ NamePath(n) \in DOMAIN fs
        /\ NamePath(n) \o <<"code.zip">> \in DOMAIN fs

(***************************************************************************)
(* Properties of the function registry, over the behaviours of             *)
(* SpecRegistry.                                                           *)
(***************************************************************************)
\* The identifier arn:aws:lambda:<region>:000000000000:function:<name> of a
\* function name, as a string.
IdentifierOf(name) == SprintfArn(awsConfRegionString, name)

\* A name without a colon: its identifier has exactly seven parts.
ColonFree(name) == \A k \in 1..Len(name) : name[k] # ":"

\* One of the six leading parts of an identifier (partition prefix, service,
\* region, account, resource type) is there and is not the expected one.
FixedPartDiffers(arn) ==
    \E k \in 1..6 : k <= Len(Split(arn)) /\ Split(arn)[k] # ExpectedParts[k]

\* C18 as stated: GetFromARN returns the registered record for the
\* identifier of every registered function name; it returns absent for every
\* identifier one of whose fixed parts differs from the expected value, and
\* for the seven-part identifier of a name that is not registered.
C18_ResolvesEveryRegisteredName ==
    rlast.op = "GetFromARN" =>
        /\ \A n \in DOMAIN mapping :
               rlast.arg = IdentifierOf(n) => rlast.result = Found(mapping[n])
        /\ FixedPartDiffers(rlast.arg) => rlast.result = Absent
        /\ \A n \in LookupNames :
               (ColonFree(n) /\ n \notin DOMAIN mapping /\ rlast.arg = IdentifierOf(n))
                   => rlast.result = Absent

\* C18 amended: GetFromARN returns the registered record for the identifier
\* of every registered function name that holds no colon; it returns absent
\* for every identifier one of whose fixed parts differs from the expected
\* value, and for the seven-part identifier of a name that is not
\* registered.
C18_ResolvesColonFreeNames ==
    rlast.op = "GetFromARN" =>
        /\ \A n \in DOMAIN mapping :
               (ColonFree(n) /\ rlast.arg = IdentifierOf(n))
                   => rlast.result = Found(mapping[n])
        /\ FixedPartDiffers(rlast.arg) => rlast.result = Absent
        /\ \A n \in LookupNames :
               (ColonFree(n) /\ n \notin DOMAIN mapping /\ rlast.arg = IdentifierOf(n))
                   => rlast.result = Absent

\* C18 witness: with all three names registered, the identifier of
\* "mytest" resolved to the record registered last under that name.
C18_Witness ==
    /\ DOMAIN mapping = RegistryNames
    /\ rlast.op = "GetFromARN"
    /\ rlast.arg = IdentifierOf(<<"mytest">>)
    /\ rlast.result = Found(RegistryRecord(<<"mytest">>, 2))

\* C20: Register(record) maps record.name to that record, whatever was
\* registered under the name before, so that Get(record.name) returns it;
\* the entries of all other names are as they were, and no other name
\* appears or disappears.  Get returns what the mapping holds.
C20_RegisterLastWriteWins ==
    [][/\ rlast'.op = "Register" =>
              /\ Lookup(mapping', rlast'.arg.FunctionName) = Found(rlast'.arg)
              /\ DOMAIN mapping' = DOMAIN mapping \cup {rlast'.arg.FunctionName}
              /\ \A n \in DOMAIN mapping \ {rlast'.arg.FunctionName} :
                     mapping'[n] = mapping[n]
       /\ rlast'.op = "Get" =>
              /\ rlast'.result = Lookup(mapping, rlast'.arg)
              /\ mapping' = mapping]_vars

\* C20 witness: with "my" and "my:fn" registered, Get("mytest") returned
\* the second revision of "mytest", the record that is registered under the
\* name now, while "my" still holds its first revision and "my:fn" its
\* second.
C20_Witness ==
    /\ rlast.op = "Get"
    /\ rlast.arg = <<"mytest">>
    /\ rlast.result = Found(RegistryRecord(<<"mytest">>, 2))
    /\ DOMAIN mapping = RegistryNames
    /\ mapping[<<"my">>] = RegistryRecord(<<"my">>, 1)
    /\ mapping[<<"my", ":", "fn">>] = RegistryRecord(<<"my", ":", "fn">>, 2)

\* C31 (as stated): GetFromARN is total: for every identifier string,
\* those with fewer than seven colon-separated segments included, it
\* returns a record or absent and never panics.
C31_GetFromARNTotal ==
    rlast.op = "GetFromARN" => ~rlast.result.panics

\* What the staging of request r returns when the call runs alone on a
\* service that has created nothing.
AloneStaged(r) ==
    putZippedCode([q \in {<<>>} |-> DirNode], r.name, r.payload, NoFault)

\* C32 (as stated): two concurrent Creates for different names are
\* independent.  Each call fails only as it would alone (with the error of
\* its own staging, or because the engine fails its launch); once it is past
\* staging its code file holds its decoded bytes, and the record it
\* registers carries its size; and no step of one call changes what is
\* below the other name's staging directory or the other name's registry
\* entry.
C32_DistinctNamesIndependent ==
    /\ [](\A p \in Callers : \A q \in Callers :
            creq[p].name # creq[q].name =>
                /\ cloc[p].err # NoError =>
                      \/ cloc[p].err = AloneStaged(creq[p]).err
                      \/ /\ AloneStaged(creq[p]).err = NoError
                         /\ cloc[p].err = Err(ErrCodeServiceException,
                                              "failed to start container")
                /\ PastStaging(p) =>
                      /\ CodeZipOf(creq[p]) \in DOMAIN fs
                      /\ fs[CodeZipOf(creq[p])] =
                            FileNode(DecodeString(creq[p].payload).bytes)
                /\ creq[p].name \in DOMAIN pool =>
                      pool[creq[p].name].CodeSize =
                          Len(DecodeString(creq[p].payload).bytes))
    /\ [][\A p \in Callers : \A q \in Callers :
            (creq[p].name # creq[q].name /\ cpc'[p] # cpc[p]) =>
                /\ StagedPaths(fs', creq[q].name) = StagedPaths(fs, creq[q].name)
                /\ \A path \in StagedPaths(fs, creq[q].name) : fs'[path] = fs[path]
                /\ (creq[q].name \in DOMAIN pool') = (creq[q].name \in DOMAIN pool)
                /\ creq[q].name \in DOMAIN pool =>
                      pool'[creq[q].name] = pool[creq[q].name]]_vars

\* C33: the gateway's resolved network name and volume name are fixed at
\* construction.  No step of a RunImage or a KillMulti call, in any number
\* or interleaving, changes the gateway, and the create request of every
\* launch binds the gateway's volume at /var/task, runs in the gateway's
\* network and has its one endpoint in that network.
C33_GatewayNamesFixed ==
    /\ [][gw' = gw]_vars
    /\ []((glast.op = "RunImage" /\ glast.conf # NoContainerConfig) =>
            /\ glast.conf.NetworkMode = gw.networkName
            /\ DOMAIN glast.conf.EndpointsConfig = {gw.networkName}
            /\ glast.conf.Binds = <<<<gw.volume, ":/var/task:ro,delegated">>>>)

\* C33 witness: on a gateway constructed in network "bridge" with its code
\* volume resolved, a launch sent its create request after a KillMulti call
\* on an earlier container had returned.
C33_Witness ==
    /\ gw.networkName = "bridge"
    /\ gw.volume # ""
    /\ kpc = "done"
    /\ Len(ids) >= 1
    /\ glast.op = "RunImage"
    /\ glast.conf # NoContainerConfig
    /\ glast.conf.NetworkMode = "bridge"
    /\ glast.conf.Binds = <<<<gw.volume, ":/var/task:ro,delegated">>>>

=============================================================================
